---- MODULE Spec2Model ----
(***************************************************************************)
(* Model of the lighting-match-engine-core matching kernel.                *)
(*                                                                         *)
(* Part 1 models ContinuousOrderBook (src/src/continuous_order_book.rs):   *)
(* two vectors of resting orders (bids, asks), a top-N index per side      *)
(* rebuilt by a stable sort on (price, submit_time), the match loop, the   *)
(* post-match clean-up with swap_remove, the running volume totals and     *)
(* cancel_order.  Specifications Spec (every kind of BUY/SELL order, short *)
(* runs) and SpecTies (one price, one submit_time, longer runs) drive it.  *)
(*                                                                         *)
(* Part 2 models OrderMatcher (src/src/order_matcher.rs): one flat vector  *)
(* of resting orders, find_best_match_index, expiry clean-up, match_orders *)
(* and cancellation.  Specification SpecMatcher drives it;                 *)
(* SpecMatcherZero feeds it orders of any quantity, 0 included.            *)
(*                                                                         *)
(* Part 3 models OrderBook (src/src/order_book.rs): the same two vectors   *)
(* and top-N indexes, matching that consumes the head of the index, and    *)
(* the read-only mock matching of MOCK_BUY/MOCK_SELL orders.               *)
(* Specification SpecMock drives it, and drives ContinuousOrderBook with   *)
(* the same stream of orders of all four order types.                      *)
(*                                                                         *)
(* Part 4 models the pipeline: NetworkHandler (network_handler.rs), the     *)
(* OrderMatcher task and TradeEventSender (broadcast_handler.rs) as three  *)
(* tasks joined by two bounded channels, each task stepping from one await *)
(* on a channel to the next.  The code that creates the channels and       *)
(* spawns and stops the tasks is not in the sources; capacities and        *)
(* shutdown follow the specification document.  SpecPipeline drives it,    *)
(* SpecPipelineFair adds the fairness of the scheduler.                    *)
(* SpecLoaded starts ContinuousOrderBook from the book that                *)
(* load_sample_test_book (engine_state.rs) fuels at start-up.              *)
(*                                                                         *)
(* Part 5 models the wire codec (message_codec.rs) byte by byte, with the  *)
(* frame size of data_types.rs, and one iteration of run_receive_loop on   *)
(* a datagram.  Specification SpecWire encodes messages and feeds the      *)
(* receive loop with the frames, damaged and resized variants included.    *)
(* SpecWireChanged feeds it frames with any one byte changed.              *)
(*                                                                         *)
(* Part 6 models CallAuctionPool (call_auction_pool.rs): add_order,        *)
(* calculate_match_price_final, execute_auction and cancel_order.          *)
(* Specification SpecAuction drives it; SpecAuctionTimes adds orders       *)
(* whose submit times differ from their order of arrival.                  *)
(*                                                                         *)
(* Part 7 models the MatchingEngine of main.rs: receive_orders,            *)
(* process_orders and broadcast_stats as three tasks over one channel      *)
(* and three mutexes, each action one step between two awaits.             *)
(* Specification SpecMain drives it.                                       *)
(*                                                                         *)
(* Vectors are TLA+ sequences, so positions are 1-based where the Rust     *)
(* code is 0-based; top_*_index holds 1-based positions and *_index_used   *)
(* counts consumed entries exactly as in the code.                         *)
(***************************************************************************)
EXTENDS Integers, Sequences, FiniteSets, TLC

\* ----------------------------------------------------------------- bounds
MaxOrderId == 3
MaxPrice == 2
MaxQuantity == 2
MaxTime == 2
MaxMessages == 3
MaxTieMessages == 5
MaxMatcherMessages == 2
MaxProductId == 2
\* messages per run of the stream that carries mock orders
MaxMockMessages == 3
MaxMatcherMockMessages == 3
\* messages per run of the stream that carries orders of several products
MaxProductMessages == 3
\* datagrams per run of the pipeline, and ids they carry
MaxDatagrams == 3
MaxPipelineOrderId == 1
\* capacities of the two channels
InboundCapacity == 2
OutboundCapacity == 1
\* the call auction: calls per run, orders in the pool, prices and ticks
MaxAuctionCalls == 5
MaxAuctionOrders == 4
MaxAuctionPrice == 3
MaxPriceTick == 2
\* the auction of orders with several submit times: prices and submit times
MaxTimedPrice == 2
MaxAuctionTime == 2
\* the timestamps execute_auction is called with
MaxCurrentTs == 1
\* the engine of main.rs: datagrams per run, orders per datagram, and the
\* capacity of its channel
MaxMainDatagrams == 2
MaxDatagramOrders == 2
MainChannelCapacity == 1
\* largest --test-order-book-size
MaxTestBookSize == 1
\* encoder calls and datagrams per run of the codec
MaxWireSteps == 3
MaxChangedSteps == 2
\* the shortest datagram tried, and a message type outside the protocol
MinDatagramSize == 50
UnknownMessageType == 7
\* largest capacity of the top index given to ContinuousOrderBook::new
MaxTopIndexSize == 2

\* ------------------------------------------------------ program constants
ORDER_TYPE_BUY == 1
ORDER_TYPE_SELL == 2
ORDER_TYPE_MOCK_BUY == 3
ORDER_TYPE_MOCK_SELL == 4
ORDER_PRICE_TYPE_LIMIT == 1
ORDER_PRICE_TYPE_MARKET == 2
MSG_ORDER_SUBMIT == 1
MSG_ORDER_CANCEL == 2
MSG_TRADE_BROADCAST == 10
MSG_STATUS_BROADCAST == 11
MESSAGE_TOTAL_SIZE == 64
MAX_IDS_PER_CHUNK == 5
PAYLOAD_START == 2

VARIABLES
    init_top_index_size,                \* u32, fixed at construction
    bids, asks,                         \* Vec<Order>
    top_bids_index, top_asks_index,     \* Vec<OrderIndex>
    bids_index_used, asks_index_used,   \* usize
    total_bid_volumn, total_ask_volumn, \* u32
    matched_orders,                     \* Vec<MatchedRestingOrder>
    match_result,                       \* MatchResult.order_execution_list
    total_received_orders,              \* messages handed to the matcher
    panicked,                           \* the matcher thread aborted
    last_call,                          \* history: the call just made and what it returned/sent
    \* OrderMatcher over the flat book of order_matcher.rs
    order_book,                         \* state.order_book: Vec<Order>
    state_matched_orders,               \* state.matched_orders: u64
    state_product_id,                   \* state.product_id
    matcher_clock,                      \* the latest reading of current_timestamp()
    matcher_received,                   \* messages taken off the receiver
    matcher_aborted,                    \* the matching task aborted
    matcher_call,                       \* history: the message just handled and what was sent
    \* OrderBook of order_book.rs
    ob,                                 \* the OrderBook value: both vectors and both top indexes
    ob_received,                        \* messages handed to the OrderBook
    ob_call,                            \* history: the message just handled and what was sent
    \* the three tasks and the two bounded channels between them
    inbound_queue,                      \* mpsc channel of IncomingMessage
    outbound_queue,                     \* mpsc channel of MatchResult
    receiver_pc,                        \* "recv" (socket), "send" (channel), "stopped"
    receiver_message,                   \* the message process_single_message holds at its send
    matcher_pc,                         \* "recv" (channel), "send" (channel), "exited"
    matcher_local,                      \* locals of match_orders across its send
    broadcaster_pc,                     \* "recv" (channel), "exited"
    datagrams,                          \* well-formed datagrams read off the socket
    enqueued,                           \* history: messages put on the inbound queue
    produced,                           \* history: MatchResults put on the outbound queue
    handed,                             \* history: MatchResults the broadcaster has serialized
    \* CallAuctionPool of call_auction_pool.rs
    pool_bids, pool_asks,               \* Vec<Order>
    pool_received,                      \* calls made on the pool
    pool_call,                          \* history: the call just made, the pool before it, what it returned
    \* the codec and the receive loop over raw datagrams
    wire_frame,                         \* history: the message just encoded and its frame
    net_total_received_orders,          \* state.total_received_orders of the NetworkHandler
    net_sent,                           \* messages the NetworkHandler has sent on its channel
    net_call,                           \* history: the datagram just read and what was done with it
    wire_steps,                         \* encoder calls and datagrams so far
    \* MatchingEngine of main.rs: three tasks, one channel, three mutexes
    main_channel,                       \* mpsc::channel::<Order>
    main_order_book,                    \* Mutex<Vec<Order>>
    main_matched_orders,                \* Mutex<u64>
    main_total_received_orders,         \* Mutex<u64>
    main_locks,                         \* which task holds each of the three mutexes
    receive_task,                       \* where receive_orders stands, and the orders of its datagram left to send
    process_task,                       \* where process_orders stands, and the order it is working on
    stats_task,                         \* where the statistics task stands
    main_datagrams                      \* datagrams read off the socket

cobVars == <<init_top_index_size, bids, asks, top_bids_index, top_asks_index,
             bids_index_used, asks_index_used, total_bid_volumn, total_ask_volumn,
             matched_orders, match_result, total_received_orders, panicked, last_call>>

matcherVars == <<order_book, state_matched_orders, state_product_id, matcher_clock,
                 matcher_received, matcher_aborted, matcher_call>>

obVars == <<ob, ob_received, ob_call>>

pipeVars == <<inbound_queue, outbound_queue, receiver_pc, receiver_message,
              matcher_pc, matcher_local, broadcaster_pc, datagrams,
              enqueued, produced, handed>>

auctionVars == <<pool_bids, pool_asks, pool_received, pool_call>>

wireVars == <<wire_frame, net_total_received_orders, net_sent, net_call, wire_steps>>

mainVars == <<main_channel, main_order_book, main_matched_orders,
              main_total_received_orders, main_locks, receive_task, process_task,
              stats_task, main_datagrams>>

vars == <<cobVars, matcherVars, obVars, pipeVars, auctionVars, wireVars, mainVars>>

\* ------------------------------------------------------------ data types
OrderIds == 1..MaxOrderId
Prices == 1..MaxPrice
Quantities == 1..MaxQuantity
Times == 1..MaxTime
OrderTypes == {ORDER_TYPE_BUY, ORDER_TYPE_SELL}

\* An incoming order as the codec decodes it.  seq is a history field, not
\* part of the program's Order: it records the rank of arrival in the book
\* among the orders resting on the same side (0 while not resting).
LimitOrder == [order_id : OrderIds, price : Prices, quantity : Quantities,
               order_type : OrderTypes, price_type : {ORDER_PRICE_TYPE_LIMIT},
               submit_time : Times, seq : {0}]

\* A MARKET order carries no meaningful price; clients send 0.
MarketOrder == [order_id : OrderIds, price : {0}, quantity : Quantities,
                order_type : OrderTypes, price_type : {ORDER_PRICE_TYPE_MARKET},
                submit_time : {MaxTime}, seq : {0}]

Order == LimitOrder \cup MarketOrder

\* ------------------------------------------------------------ Vec helpers
\* Vec::swap_remove(i): the last element takes the place of element i.
SwapRemove(s, i) ==
    IF i = Len(s) THEN SubSeq(s, 1, Len(s) - 1)
    ELSE [j \in 1..(Len(s) - 1) |-> IF j = i THEN s[Len(s)] ELSE s[j]]

\* iter().take(n)
Take(s, n) == SubSeq(s, 1, IF Len(s) < n THEN Len(s) ELSE n)

\* the comparator of prepare_bids_index: price DESC then submit_time ASC
BidLess(a, b) ==
    \/ a.price > b.price
    \/ a.price = b.price /\ a.submit_time < b.submit_time

\* a faulty comparator for the asks: price DESC, the highest ask first
AskLess_price_descending(a, b) ==
    \/ a.price > b.price
    \/ a.price = b.price /\ a.submit_time < b.submit_time

\* the comparator of prepare_asks_index: price ASC then submit_time ASC
AskLess(a, b) ==
    \/ a.price < b.price
    \/ a.price = b.price /\ a.submit_time < b.submit_time

OrderLess(a, b, is_bids) == IF is_bids THEN BidLess(a, b) ELSE AskLess(a, b)

\* slice::sort_by is a stable sort: equal elements keep their vector order.
\* One step of insertion: position i goes before the first sorted entry
\* that compares strictly greater.
InsertSorted(sorted, i, orders, is_bids) ==
    LET later == {p \in 1..Len(sorted) : OrderLess(orders[i], orders[sorted[p]], is_bids)}
        k == IF later = {} THEN Len(sorted) + 1
             ELSE CHOOSE p \in later : \A q \in later : p <= q
    IN SubSeq(sorted, 1, k - 1) \o <<i>> \o SubSeq(sorted, k, Len(sorted))

RECURSIVE SortFrom(_, _, _, _)
SortFrom(sorted, i, orders, is_bids) ==
    IF i > Len(orders) THEN sorted
    ELSE SortFrom(InsertSorted(sorted, i, orders, is_bids), i + 1, orders, is_bids)

SortedIndex(orders, is_bids) == SortFrom(<<>>, 1, orders, is_bids)

\* std::cmp::min
Min2(a, b) == IF a <= b THEN a ELSE b

RECURSIVE SumQuantity(_)
SumQuantity(s) == IF s = <<>> THEN 0 ELSE s[1].quantity + SumQuantity(Tail(s))

\* the Vec<OrderIndex> sorted descending (sort_unstable_by(|a, b| b.cmp(a)))
RECURSIVE SortDesc(_)
SortDesc(s) ==
    IF s = <<>> THEN <<>>
    ELSE LET m == CHOOSE p \in 1..Len(s) : \A q \in 1..Len(s) : s[p] >= s[q]
         IN <<s[m]>> \o SortDesc(SubSeq(s, 1, m - 1) \o SubSeq(s, m + 1, Len(s)))

\* ------------------------------------------------- the book as one value
\* The operators below transform the whole ContinuousOrderBook value; the
\* actions read it from and write it back to the variables.
Book ==
    [init_top_index_size |-> init_top_index_size,
     bids |-> bids, asks |-> asks,
     top_bids_index |-> top_bids_index, top_asks_index |-> top_asks_index,
     bids_index_used |-> bids_index_used, asks_index_used |-> asks_index_used,
     total_bid_volumn |-> total_bid_volumn, total_ask_volumn |-> total_ask_volumn,
     matched_orders |-> matched_orders, match_result |-> match_result,
     oob |-> FALSE, overflowed |-> FALSE]

ContinuousOrderBook_new(initial_top_size) ==
    [init_top_index_size |-> initial_top_size,
     bids |-> <<>>, asks |-> <<>>,
     top_bids_index |-> <<>>, top_asks_index |-> <<>>,
     bids_index_used |-> 0, asks_index_used |-> 0,
     total_bid_volumn |-> 0, total_ask_volumn |-> 0,
     matched_orders |-> <<>>, match_result |-> <<>>,
     oob |-> FALSE, overflowed |-> FALSE]

fuel_order(b, order) ==
    IF order.order_type = ORDER_TYPE_BUY
    THEN [b EXCEPT !.bids = Append(@, [order EXCEPT !.seq = Len(b.bids) + 1])]
    ELSE IF order.order_type = ORDER_TYPE_SELL
    THEN [b EXCEPT !.asks = Append(@, [order EXCEPT !.seq = Len(b.asks) + 1])]
    ELSE b

need_to_rebuild_bids_index(b) ==
    \/ b.bids_index_used = 0 /\ Len(b.top_bids_index) = 0
    \/ b.bids_index_used >= Len(b.top_bids_index)

need_to_rebuild_asks_index(b) ==
    \/ b.asks_index_used = 0 /\ Len(b.top_asks_index) = 0
    \/ b.asks_index_used >= Len(b.top_asks_index)

prepare_bids_index(b) ==
    [b EXCEPT !.top_bids_index = Take(SortedIndex(b.bids, TRUE), b.init_top_index_size),
              !.bids_index_used = 0]

prepare_asks_index(b) ==
    [b EXCEPT !.top_asks_index = Take(SortedIndex(b.asks, FALSE), b.init_top_index_size),
              !.asks_index_used = 0]

prepare_index(b) == prepare_asks_index(prepare_bids_index(b))

\* post_match, first loop: each matched resting order is either marked for
\* removal (fully filled) or has its quantity reduced (partial fill).
RECURSIVE ApplyMatched(_, _, _)
ApplyMatched(b, to_remove, k) ==
    IF k > Len(b.matched_orders) THEN [book |-> b, to_remove |-> to_remove]
    ELSE LET matched == b.matched_orders[k]
             i == matched.order_index
         IN IF matched.is_buy
            THEN IF i <= Len(b.bids)
                 THEN IF matched.matched_quantity >= b.bids[i].quantity
                      THEN ApplyMatched(b, [to_remove EXCEPT !.bids = Append(@, i)], k + 1)
                      ELSE ApplyMatched(
                               [b EXCEPT !.bids[i].quantity = @ - matched.matched_quantity],
                               to_remove, k + 1)
                 ELSE ApplyMatched(b, to_remove, k + 1)
            ELSE IF i <= Len(b.asks)
                 THEN IF matched.matched_quantity >= b.asks[i].quantity
                      THEN ApplyMatched(b, [to_remove EXCEPT !.asks = Append(@, i)], k + 1)
                      ELSE ApplyMatched(
                               [b EXCEPT !.asks[i].quantity = @ - matched.matched_quantity],
                               to_remove, k + 1)
                 ELSE ApplyMatched(b, to_remove, k + 1)

\* post_match, second loop: swap_remove every marked index that is still
\* inside the vector, in the (descending) order of the list.
RECURSIVE RemoveAll(_, _)
RemoveAll(orders, indices) ==
    IF indices = <<>> THEN orders
    ELSE IF indices[1] <= Len(orders)
         THEN RemoveAll(SwapRemove(orders, indices[1]), Tail(indices))
         ELSE RemoveAll(orders, Tail(indices))

post_match(b, match_against_asks) ==
    IF b.matched_orders = <<>> THEN b
    ELSE LET r == ApplyMatched(b, [bids |-> <<>>, asks |-> <<>>], 1)
             b1 == [r.book EXCEPT
                        !.bids = RemoveAll(@, SortDesc(r.to_remove.bids)),
                        !.asks = RemoveAll(@, SortDesc(r.to_remove.asks))]
             b2 == IF match_against_asks THEN prepare_asks_index(b1)
                   ELSE prepare_bids_index(b1)
         IN [b2 EXCEPT !.matched_orders = <<>>]

\* One OrderExecution.  trade_time_network is
\* (engine_received_time - submit_time) as u32, represented by the integer
\* difference: a negative number stands for the wrapped value.  maker_seq is
\* a history field: the arrival rank of the resting order that was filled,
\* as it stood when the call began.
OrderExecution(new_order, resting_order, trade_price, trade_quantity, engine_received_time) ==
    [buy_order_id |-> IF new_order.order_type = ORDER_TYPE_BUY
                      THEN new_order.order_id ELSE resting_order.order_id,
     sell_order_id |-> IF new_order.order_type = ORDER_TYPE_BUY
                       THEN resting_order.order_id ELSE new_order.order_id,
     price |-> trade_price,
     quantity |-> trade_quantity,
     trade_time_network |-> engine_received_time - new_order.submit_time,
     maker_seq |-> resting_order.seq]

\* a faulty trade quantity: all the resting order has, whatever the
\* aggressor has left
trade_quantity_of_maker(new_order, resting_order) == resting_order.quantity

\* "Match Calculation" of match_against_side
trade_quantity_of(new_order, resting_order) ==
    IF new_order.quantity < resting_order.quantity
    THEN new_order.quantity ELSE resting_order.quantity

\* a faulty trade price: the aggressor's own price
trade_price_of_taker(new_order, resting_order) == new_order.price

trade_price_of(new_order, resting_order) == resting_order.price

\* a faulty price check: equal prices do not match
price_check_ok_strict(new_order, resting_order, match_against_asks) ==
    IF match_against_asks
    THEN \/ new_order.price_type = ORDER_PRICE_TYPE_MARKET
         \/ new_order.price > resting_order.price
    ELSE \/ new_order.price_type = ORDER_PRICE_TYPE_MARKET
         \/ new_order.price < resting_order.price

\* the price check of match_against_side
price_check_ok(new_order, resting_order, match_against_asks) ==
    IF match_against_asks
    THEN \/ new_order.price_type = ORDER_PRICE_TYPE_MARKET
         \/ new_order.price >= resting_order.price
    ELSE \/ new_order.price_type = ORDER_PRICE_TYPE_MARKET
         \/ new_order.price <= resting_order.price

\* the loop of match_against_side; yields the book and the aggressor as
\* they stand when the loop is left
RECURSIVE match_loop(_, _, _, _)
match_loop(b, new_order, match_against_asks, engine_received_time) ==
    LET top_index == IF match_against_asks THEN b.top_asks_index ELSE b.top_bids_index
        resting_orders == IF match_against_asks THEN b.asks ELSE b.bids
        top_index_used == IF match_against_asks THEN b.asks_index_used
                          ELSE b.bids_index_used
    IN
    IF new_order.quantity = 0 THEN [book |-> b, order |-> new_order]
    ELSE IF top_index = <<>>
    THEN LET b1 == IF match_against_asks THEN prepare_asks_index(b)
                   ELSE prepare_bids_index(b)
             re_indexed == IF match_against_asks THEN b1.top_asks_index
                           ELSE b1.top_bids_index
         IN IF re_indexed = <<>> THEN [book |-> b1, order |-> new_order]
            ELSE match_loop(b1, new_order, match_against_asks, engine_received_time)
    ELSE IF top_index_used >= Len(top_index)
    THEN \* top_index[top_index_used] is out of bounds: the thread panics
         [book |-> [b EXCEPT !.oob = TRUE], order |-> new_order]
    ELSE LET resting_order_index == top_index[top_index_used + 1]
         IN
         IF resting_order_index > Len(resting_orders)
         THEN [book |-> b, order |-> new_order]      \* "fatal: no order found"
         ELSE LET resting_order == resting_orders[resting_order_index]
              IN
              IF ~price_check_ok(new_order, resting_order, match_against_asks)
              THEN [book |-> b, order |-> new_order]
              ELSE LET trade_quantity == trade_quantity_of(new_order, resting_order)
                       trade_price == trade_price_of(new_order, resting_order)
                       order1 == [new_order EXCEPT !.quantity = @ - trade_quantity]
                       b1 == [b EXCEPT
                               !.matched_orders = Append(@,
                                   [order_index |-> resting_order_index,
                                    matched_quantity |-> trade_quantity,
                                    is_buy |-> ~match_against_asks]),
                               !.asks_index_used =
                                   IF match_against_asks THEN @ + 1 ELSE @,
                               !.bids_index_used =
                                   IF match_against_asks THEN @ ELSE @ + 1,
                               !.match_result = Append(@,
                                   OrderExecution(order1, resting_order,
                                                  trade_price, trade_quantity,
                                                  engine_received_time)),
                               \* u64 subtraction below zero
                               !.overflowed =
                                   @ \/ engine_received_time < new_order.submit_time]
                       needs_to_rebuild_index ==
                           IF match_against_asks THEN need_to_rebuild_asks_index(b1)
                           ELSE need_to_rebuild_bids_index(b1)
                       b2 == IF needs_to_rebuild_index
                             THEN post_match(b1, match_against_asks) ELSE b1
                   IN match_loop(b2, order1, match_against_asks, engine_received_time)

\* update_stats_with_result.  The totals are u32; a total is represented
\* here by the integer congruent to it modulo 2^32 that the additions and
\* subtractions produce, so a negative number stands for the wrapped value
\* 2^32 + n.  A subtraction that goes below zero is flagged: it panics when
\* overflow checks are compiled in and wraps otherwise.
update_stats_with_result(b, new_order) ==
    LET is_sell_order == new_order.order_type = ORDER_TYPE_SELL
        ask1 == IF is_sell_order /\ new_order.quantity > 0
                THEN b.total_ask_volumn + new_order.quantity ELSE b.total_ask_volumn
        bid1 == IF is_sell_order /\ new_order.quantity > 0
                THEN b.total_bid_volumn ELSE b.total_bid_volumn + new_order.quantity
        total_quantity == SumQuantity(b.match_result)
        none == b.match_result = <<>>
        ask2 == IF none \/ is_sell_order THEN ask1 ELSE ask1 - total_quantity
        bid2 == IF none \/ ~is_sell_order THEN bid1 ELSE bid1 - total_quantity
    IN [b EXCEPT !.total_ask_volumn = ask2,
                 !.total_bid_volumn = bid2,
                 !.overflowed = @ \/ (ask1 >= 0 /\ ask2 < 0) \/ (bid1 >= 0 /\ bid2 < 0)]

\* match_against_side: clear the previous result, run the loop, send the
\* result, clean up, update the totals.  sent is what send_result received.
after_match_loop(r, match_against_asks) ==
    IF r.book.oob THEN [book |-> r.book, order |-> r.order, sent |-> <<>>]
    ELSE [book |-> update_stats_with_result(
                       post_match(r.book, match_against_asks), r.order),
          order |-> r.order,
          sent |-> <<r.book.match_result>>]

match_against_side(b, new_order, match_against_asks, engine_received_time) ==
    after_match_loop(match_loop([b EXCEPT !.match_result = <<>>], new_order,
                                match_against_asks, engine_received_time),
                     match_against_asks)

\* match_order, first part: the side to match against is chosen by order_type
match_by_order_type(b, new_order, engine_received_time) ==
    IF new_order.order_type = ORDER_TYPE_SELL
    THEN match_against_side(b, new_order, FALSE, engine_received_time)
    ELSE IF new_order.order_type = ORDER_TYPE_BUY
    THEN match_against_side(b, new_order, TRUE, engine_received_time)
    ELSE [book |-> b, order |-> new_order, sent |-> <<>>]

prepare_own_index(b, order) ==
    IF order.order_type = ORDER_TYPE_BUY THEN prepare_bids_index(b)
    ELSE prepare_asks_index(b)

\* match_order, second part: r is what matching left; `order` comes to rest
\* when r.order is a LIMIT order with quantity left
rest_order(r, order) ==
    IF r.book.oob THEN r
    ELSE IF r.order.quantity > 0 /\ r.order.price_type = ORDER_PRICE_TYPE_LIMIT
    THEN [r EXCEPT !.book = prepare_own_index(fuel_order(r.book, order), order)]
    ELSE r

rest_residual(r) == rest_order(r, r.order)

\* a faulty match_order: what comes to rest is the order as it was
\* submitted, not what matching left of it
match_order_rests_submitted(b, new_order, engine_received_time) ==
    rest_order(match_by_order_type(b, new_order, engine_received_time), new_order)

match_order(b, new_order, engine_received_time) ==
    rest_residual(match_by_order_type(b, new_order, engine_received_time))

\* position of the first order with this id, 0 when there is none
FindOrder(orders, order_id) ==
    LET hits == {i \in 1..Len(orders) : orders[i].order_id = order_id}
    IN IF hits = {} THEN 0 ELSE CHOOSE i \in hits : \A j \in hits : i <= j

\* a faulty cancel_order: the top indices are cleared before the lookup
cancel_order_clears_first(b, order_id) ==
    LET in_bids == FindOrder(b.bids, order_id)
        in_asks == FindOrder(b.asks, order_id)
    IN IF in_bids > 0
       THEN [book |-> prepare_index([b EXCEPT !.top_bids_index = <<>>,
                                              !.bids = SwapRemove(@, in_bids)]),
             returned |-> TRUE]
       ELSE IF in_asks > 0
       THEN [book |-> prepare_index([b EXCEPT !.top_asks_index = <<>>,
                                              !.asks = SwapRemove(@, in_asks)]),
             returned |-> TRUE]
       ELSE [book |-> [b EXCEPT !.top_bids_index = <<>>, !.top_asks_index = <<>>],
             returned |-> FALSE]

cancel_order(b, order_id) ==
    LET in_bids == FindOrder(b.bids, order_id)
        in_asks == FindOrder(b.asks, order_id)
    IN IF in_bids > 0
       THEN [book |-> prepare_index([b EXCEPT !.top_bids_index = <<>>,
                                              !.bids = SwapRemove(@, in_bids)]),
             returned |-> TRUE]
       ELSE IF in_asks > 0
       THEN [book |-> prepare_index([b EXCEPT !.top_asks_index = <<>>,
                                              !.asks = SwapRemove(@, in_asks)]),
             returned |-> TRUE]
       ELSE [book |-> b, returned |-> FALSE]

\* ------------------------------------------------------- history helpers
\* Arrival ranks are kept dense (1..Len) on each side after every call, so
\* that they order the resting orders by the moment they came to rest.
Rerank(orders) ==
    [i \in 1..Len(orders) |->
        [orders[i] EXCEPT
            !.seq = Cardinality({j \in 1..Len(orders) : orders[j].seq <= orders[i].seq})]]

\* ------------------------------------------- OrderMatcher (order_matcher.rs)
\* The orders this matcher receives carry product_id and expire_time as well.
ProductIds == 1..MaxProductId

MatcherLimitOrder ==
    [product_id : ProductIds, order_id : OrderIds, price : Prices,
     quantity : Quantities, order_type : OrderTypes,
     price_type : {ORDER_PRICE_TYPE_LIMIT}, submit_time : Times,
     expire_time : {0, MaxTime}]

MatcherMarketOrder ==
    [product_id : ProductIds, order_id : OrderIds, price : {0},
     quantity : Quantities, order_type : OrderTypes,
     price_type : {ORDER_PRICE_TYPE_MARKET}, submit_time : {MaxTime},
     expire_time : {0, MaxTime}]

\* Orders of the engine's product, and one order of every other product
\* (the handler reads nothing but the product_id of those).
MatcherOrder(product_id) ==
    {o \in MatcherLimitOrder \cup MatcherMarketOrder : o.product_id = product_id}
    \cup {o \in MatcherLimitOrder :
            /\ o.product_id # product_id
            /\ o.order_id = 1 /\ o.price = 1 /\ o.quantity = 1
            /\ o.order_type = ORDER_TYPE_BUY /\ o.submit_time = 1
            /\ o.expire_time = 0}

\* Vec::remove
Remove(s, i) == SubSeq(s, 1, i - 1) \o SubSeq(s, i + 1, Len(s))

\* The comparator handed to min_by: price first (ascending for an incoming
\* BUY, descending otherwise), then submit_time.
MatchLess(order_a, order_b, is_buy) ==
    LET price_less == IF is_buy THEN order_a.price < order_b.price
                                ELSE order_b.price < order_a.price
    IN \/ price_less
       \/ order_a.price = order_b.price /\ order_a.submit_time < order_b.submit_time

\* The index of the order to fill next, 0 for None.  min_by returns the
\* first of several equally minimal elements.
find_best_match_index(book, new_order) ==
    LET is_buy == new_order.order_type = ORDER_TYPE_BUY
        is_limit == new_order.price_type = ORDER_PRICE_TYPE_LIMIT
        potential_matches ==
            {i \in 1..Len(book) :
                LET existing_order == book[i]
                    is_opposite_side == existing_order.order_type # new_order.order_type
                    price_condition_met ==
                        \/ is_buy /\ existing_order.price <= new_order.price
                        \/ ~is_buy /\ existing_order.price >= new_order.price
                    market_order_match ==
                        new_order.price_type = ORDER_PRICE_TYPE_MARKET /\ is_opposite_side
                IN /\ is_opposite_side
                   /\ (is_limit /\ price_condition_met) \/ market_order_match}
    IN IF potential_matches = {} THEN 0
       ELSE CHOOSE i \in potential_matches :
                \A j \in potential_matches :
                    /\ ~MatchLess(book[j], book[i], is_buy)
                    /\ j < i => MatchLess(book[i], book[j], is_buy)

cleanup_expired_orders_after_now(book, now) ==
    SelectSeq(book, LAMBDA order : order.expire_time = 0 \/ order.expire_time >= now)

cleanup_expired_orders(book, now) ==
    SelectSeq(book, LAMBDA order : order.expire_time = 0 \/ order.expire_time > now)

\* The while loop of match_orders.  m carries the book, the incoming order,
\* the results sent and the counter.  The u64 subtraction for
\* trade_time_network goes below zero when submit_time lies after the clock:
\* with overflow checks the task aborts there, after the resting order has
\* been taken out of the book; without them the value wraps (a negative
\* number stands for the wrapped one).
RECURSIVE matcher_loop(_, _, _)
\* one pass of the loop, i being what find_best_match_index returned
matcher_pass(m, i, now, overflow_checks) ==
    IF ~(m.order.quantity > 0) \/ i = 0 THEN m
    ELSE LET new_order == m.order
             is_buy == new_order.order_type = ORDER_TYPE_BUY
             existing_order == m.book[i]
             trade_qty == IF new_order.quantity <= existing_order.quantity
                          THEN new_order.quantity ELSE existing_order.quantity
             trade_price == existing_order.price
             new1 == [new_order EXCEPT !.quantity = @ - trade_qty]
             existing1 == [existing_order EXCEPT !.quantity = @ - trade_qty]
             removed == Remove(m.book, i)
             result == [buy_order_id |-> IF is_buy THEN new_order.order_id
                                         ELSE existing_order.order_id,
                        sell_order_id |-> IF ~is_buy THEN new_order.order_id
                                          ELSE existing_order.order_id,
                        price |-> trade_price,
                        quantity |-> trade_qty,
                        trade_time_network |-> now - new_order.submit_time,
                        \* history: the order_type and the expire_time of
                        \* the resting order filled
                        maker_order_type |-> existing_order.order_type,
                        maker_expire_time |-> existing_order.expire_time]
         IN IF overflow_checks /\ now < new_order.submit_time
            THEN [m EXCEPT !.book = removed, !.order = new1, !.aborted = TRUE]
            ELSE matcher_loop(
                     [m EXCEPT !.book = IF existing1.quantity > 0
                                        THEN Append(removed, existing1)
                                        ELSE removed,
                               !.order = new1,
                               !.sent = Append(@, result),
                               !.matched = @ + 1],
                     now, overflow_checks)

matcher_loop(m, now, overflow_checks) ==
    matcher_pass(m, find_best_match_index(m.book, m.order), now, overflow_checks)

\* step 8 of match_orders: a LIMIT order with quantity left is pushed
push_unfilled_limit(m) ==
    IF ~m.aborted /\ m.order.quantity > 0
       /\ m.order.price_type = ORDER_PRICE_TYPE_LIMIT
    THEN [m EXCEPT !.book = Append(@, m.order)]
    ELSE m

match_orders(book, matched, new_order, now, overflow_checks) ==
    IF book = <<>>
    THEN [book |-> Append(book, new_order), order |-> new_order, sent |-> <<>>,
          matched |-> matched, aborted |-> FALSE]
    ELSE push_unfilled_limit(
             matcher_loop([book |-> book, order |-> new_order, sent |-> <<>>,
                           matched |-> matched, aborted |-> FALSE],
                          now, overflow_checks))

handle_order_submission(book, matched, product_id, new_order, now, overflow_checks) ==
    LET m0 == [book |-> book, order |-> new_order, sent |-> <<>>,
               matched |-> matched, aborted |-> FALSE]
    IN IF new_order.product_id # product_id THEN m0
       ELSE IF book = <<>> THEN [m0 EXCEPT !.book = Append(book, new_order)]
       ELSE match_orders(cleanup_expired_orders(book, now), matched, new_order,
                         now, overflow_checks)

handle_order_cancellation(book, order_id_to_cancel) ==
    LET index == FindOrder(book, order_id_to_cancel)
    IN IF index # 0 THEN Remove(book, index) ELSE book

\* ======================================================================
\* OrderBook (order_book.rs)
\* ======================================================================
\* every order_type the codec can deliver to process_order
AllOrderTypes ==
    {ORDER_TYPE_BUY, ORDER_TYPE_SELL, ORDER_TYPE_MOCK_BUY, ORDER_TYPE_MOCK_SELL}

\* the orders of every order_type, all submitted at the same time
MockStreamOrder ==
    [order_id : OrderIds, price : Prices, quantity : Quantities,
     order_type : AllOrderTypes, price_type : {ORDER_PRICE_TYPE_LIMIT},
     submit_time : {1}, seq : {0}]
    \cup [order_id : OrderIds, price : {0}, quantity : Quantities,
          order_type : AllOrderTypes, price_type : {ORDER_PRICE_TYPE_MARKET},
          submit_time : {1}, seq : {0}]

OrderBook_new(initial_top_size) ==
    [init_top_index_size |-> initial_top_size,
     bids |-> <<>>, asks |-> <<>>,
     top_bids_index |-> <<>>, top_asks_index |-> <<>>]

OrderBook_fuel_order(b, order) ==
    IF order.order_type = ORDER_TYPE_BUY THEN [b EXCEPT !.bids = Append(@, order)]
    ELSE IF order.order_type = ORDER_TYPE_SELL THEN [b EXCEPT !.asks = Append(@, order)]
    ELSE b

OrderBook_prepare_bids_index(b) ==
    [b EXCEPT !.top_bids_index = Take(SortedIndex(b.bids, TRUE), b.init_top_index_size)]

OrderBook_prepare_asks_index(b) ==
    [b EXCEPT !.top_asks_index = Take(SortedIndex(b.asks, FALSE), b.init_top_index_size)]

OrderBook_prepare_index(b) ==
    OrderBook_prepare_asks_index(OrderBook_prepare_bids_index(b))

\* the times here never differ by more than u32::MAX, so the second early
\* return of the code is never taken
safe_duration_u32(end_time, submit_time) ==
    IF end_time < submit_time THEN 0 ELSE end_time - submit_time

\* the MatchResult of order_book.rs: one execution
OrderBook_MatchResult(buy_id, sell_id, trade_price, trade_quantity, end_time, submit_time) ==
    [buy_order_id |-> buy_id, sell_order_id |-> sell_id,
     price |-> trade_price, quantity |-> trade_quantity,
     trade_time_network |-> safe_duration_u32(end_time, submit_time)]

\* the loop of OrderBook::match_against_side.  m = [book, order,
\* matched_orders, sent]: the book, the aggressor, the local list of matched
\* resting orders and what send_result has received so far.
RECURSIVE OrderBook_match_loop(_, _, _)
OrderBook_match_loop(m, match_against_asks, end_time) ==
    LET b == m.book
        new_order == m.order
        top_index == IF match_against_asks THEN b.top_asks_index ELSE b.top_bids_index
        resting_orders == IF match_against_asks THEN b.asks ELSE b.bids
    IN
    IF new_order.quantity = 0 THEN m
    ELSE IF top_index = <<>>
    THEN LET b1 == IF match_against_asks THEN OrderBook_prepare_asks_index(b)
                   ELSE OrderBook_prepare_bids_index(b)
             re_indexed == IF match_against_asks THEN b1.top_asks_index
                           ELSE b1.top_bids_index
         IN IF re_indexed = <<>> THEN [m EXCEPT !.book = b1]
            ELSE OrderBook_match_loop([m EXCEPT !.book = b1], match_against_asks, end_time)
    ELSE LET resting_order_index == top_index[1]
         IN
         IF resting_order_index > Len(resting_orders) THEN m
         ELSE LET resting_order == resting_orders[resting_order_index]
              IN
              IF ~price_check_ok(new_order, resting_order, match_against_asks) THEN m
              ELSE LET trade_quantity == trade_quantity_of(new_order, resting_order)
                       trade_price == trade_price_of(new_order, resting_order)
                       is_buy_order == new_order.order_type = ORDER_TYPE_BUY
                   IN OrderBook_match_loop(
                          [book |-> IF match_against_asks
                                    THEN [b EXCEPT !.top_asks_index = Tail(@)]
                                    ELSE [b EXCEPT !.top_bids_index = Tail(@)],
                           order |-> [new_order EXCEPT !.quantity = @ - trade_quantity],
                           matched_orders |-> Append(m.matched_orders,
                               [order_index |-> resting_order_index,
                                matched_quantity |-> trade_quantity,
                                is_buy |-> ~match_against_asks]),
                           sent |-> Append(m.sent,
                               OrderBook_MatchResult(
                                   IF is_buy_order THEN new_order.order_id
                                   ELSE resting_order.order_id,
                                   IF is_buy_order THEN resting_order.order_id
                                   ELSE new_order.order_id,
                                   trade_price, trade_quantity,
                                   end_time, new_order.submit_time))],
                          match_against_asks, end_time)

\* Vec::remove for every listed index that is still inside the vector, in
\* the (descending) order of the list
RECURSIVE RemoveEach(_, _)
RemoveEach(orders, indices) ==
    IF indices = <<>> THEN orders
    ELSE IF indices[1] <= Len(orders)
         THEN RemoveEach(Remove(orders, indices[1]), Tail(indices))
         ELSE RemoveEach(orders, Tail(indices))

OrderBook_post_match(b, matched) ==
    LET r == ApplyMatched([bids |-> b.bids, asks |-> b.asks, matched_orders |-> matched],
                          [bids |-> <<>>, asks |-> <<>>], 1)
    IN OrderBook_prepare_index(
           [b EXCEPT !.bids = RemoveEach(r.book.bids, SortDesc(r.to_remove.bids)),
                     !.asks = RemoveEach(r.book.asks, SortDesc(r.to_remove.asks))])

\* match_against_side: the loop, then post_match on what it matched
OrderBook_after_match_loop(m) ==
    [m EXCEPT !.book = OrderBook_post_match(m.book, m.matched_orders)]

OrderBook_match_against_side(b, new_order, match_against_asks, end_time) ==
    OrderBook_after_match_loop(
        OrderBook_match_loop([book |-> b, order |-> new_order,
                              matched_orders |-> <<>>, sent |-> <<>>],
                             match_against_asks, end_time))

\* match_order, after matching: a LIMIT residual goes to fuel_order
OrderBook_rest_residual(m) ==
    IF m.order.quantity > 0 /\ m.order.price_type = ORDER_PRICE_TYPE_LIMIT
    THEN [m EXCEPT !.book = OrderBook_fuel_order(m.book, m.order)]
    ELSE m

OrderBook_match_order(b, new_order, end_time) ==
    OrderBook_rest_residual(
        OrderBook_match_against_side(
            b, new_order,
            new_order.order_type \in {ORDER_TYPE_BUY, ORDER_TYPE_MOCK_BUY},
            end_time))

\* the loop of mock_match_against_side over the slice of resting orders and
\* the local clone of the top index
RECURSIVE mock_match_against_side(_, _, _, _, _)
mock_match_against_side(m, match_against_asks, resting_orders, top_index, end_time) ==
    IF m.order.quantity = 0 \/ top_index = <<>> THEN m
    ELSE IF top_index[1] > Len(resting_orders)
    THEN mock_match_against_side(m, match_against_asks, resting_orders,
                                 Tail(top_index), end_time)
    ELSE LET new_order == m.order
             resting_order == resting_orders[top_index[1]]
         IN
         IF ~price_check_ok(new_order, resting_order, match_against_asks) THEN m
         ELSE LET trade_quantity == trade_quantity_of(new_order, resting_order)
                  trade_price == trade_price_of(new_order, resting_order)
              IN mock_match_against_side(
                     [m EXCEPT
                        !.order.quantity = @ - trade_quantity,
                        !.matched_orders = Append(@,
                            [order_index |-> top_index[1],
                             matched_quantity |-> trade_quantity,
                             is_buy |-> ~match_against_asks]),
                        !.sent = Append(@,
                            OrderBook_MatchResult(
                                IF match_against_asks THEN new_order.order_id
                                ELSE resting_order.order_id,
                                IF match_against_asks THEN resting_order.order_id
                                ELSE new_order.order_id,
                                trade_price, trade_quantity,
                                end_time, new_order.submit_time))],
                     match_against_asks, resting_orders, Tail(top_index), end_time)

\* a faulty mock_match_order: the mock order is matched as a real one
mock_match_order_writes(b, new_order, end_time) ==
    OrderBook_match_order(b, new_order, end_time)

mock_match_order(b, new_order, end_time) ==
    LET start == [book |-> b, order |-> new_order, matched_orders |-> <<>>, sent |-> <<>>]
    IN IF new_order.order_type \in {ORDER_TYPE_BUY, ORDER_TYPE_MOCK_BUY}
       THEN mock_match_against_side(start, TRUE, b.asks, b.top_asks_index, end_time)
       ELSE IF new_order.order_type \in {ORDER_TYPE_SELL, ORDER_TYPE_MOCK_SELL}
       THEN mock_match_against_side(start, FALSE, b.bids, b.top_bids_index, end_time)
       ELSE start

process_order(b, new_order, end_time) ==
    IF new_order.order_type \in {ORDER_TYPE_BUY, ORDER_TYPE_SELL}
    THEN OrderBook_match_order(b, new_order, end_time)
    ELSE mock_match_order(b, new_order, end_time)

\* cancel_order for the one id it supports
OrderBook_cancel_order(b, order_id) ==
    LET in_bids == FindOrder(b.bids, order_id)
        in_asks == FindOrder(b.asks, order_id)
        Contains(index, i) == \E p \in 1..Len(index) : index[p] = i
    IN IF in_bids > 0
       THEN [book |-> OrderBook_prepare_index(
                          [b EXCEPT !.top_bids_index =
                                        IF Contains(@, in_bids) THEN <<>> ELSE @,
                                    !.bids = Remove(@, in_bids)]),
             returned |-> TRUE]
       ELSE IF in_asks > 0
       THEN [book |-> OrderBook_prepare_index(
                          [b EXCEPT !.top_asks_index =
                                        IF Contains(@, in_asks) THEN <<>> ELSE @,
                                    !.asks = Remove(@, in_asks)]),
             returned |-> TRUE]
       ELSE [book |-> b, returned |-> FALSE]


\* EngineState::match_order: the order goes to the continuous book as it is
EngineState_match_order(b, new_order, engine_received_time) ==
    match_order(b, new_order, engine_received_time)

\* ======================================================================
\* The pipeline: receiver, matcher and broadcaster tasks
\* ======================================================================
\* the well-formed messages the socket delivers: LIMIT orders at one price
\* for the engine's product, and cancels
PipelineOrder ==
    [product_id : {1}, order_id : 1..MaxPipelineOrderId, price : {1},
     quantity : Quantities, order_type : OrderTypes,
     price_type : {ORDER_PRICE_TYPE_LIMIT}, submit_time : Times,
     expire_time : {0}]

IncomingMessage ==
    [kind : {"submit"}, order : PipelineOrder]
    \cup [kind : {"cancel"}, order_id : 1..MaxPipelineOrderId]

\* Sender::send once there is room: the message goes to the back
channel_send(queue, message) == Append(queue, message)

\* a faulty channel use: the newest message is taken first
channel_recv_newest(queue) ==
    [message |-> queue[Len(queue)], rest |-> SubSeq(queue, 1, Len(queue) - 1)]

\* Receiver::recv on a channel that holds something: the oldest message
channel_recv(queue) == [message |-> Head(queue), rest |-> Tail(queue)]

\* match_orders from the head of its while loop to the creation of the
\* MatchResult it is about to send; i is what find_best_match_index
\* returned.  m = [book, order, matched, aborted, pending]; pending holds
\* the resting order taken out of the book and the MatchResult while the
\* task is at the send.  When the loop is left the LIMIT residual is pushed.
match_until_send(m, i, now, overflow_checks) ==
    IF ~(m.order.quantity > 0) \/ i = 0 THEN push_unfilled_limit(m)
    ELSE LET new_order == m.order
             is_buy == new_order.order_type = ORDER_TYPE_BUY
             existing_order == m.book[i]
             trade_qty == IF new_order.quantity <= existing_order.quantity
                          THEN new_order.quantity ELSE existing_order.quantity
         IN IF overflow_checks /\ now < new_order.submit_time
            THEN [m EXCEPT !.book = Remove(@, i),
                           !.order.quantity = @ - trade_qty,
                           !.aborted = TRUE]
            ELSE [m EXCEPT
                    !.book = Remove(@, i),
                    !.order.quantity = @ - trade_qty,
                    !.pending =
                        <<[existing_order |->
                               [existing_order EXCEPT !.quantity = @ - trade_qty],
                           result |->
                               [buy_order_id |-> IF is_buy THEN new_order.order_id
                                                 ELSE existing_order.order_id,
                                sell_order_id |-> IF ~is_buy THEN new_order.order_id
                                                  ELSE existing_order.order_id,
                                price |-> existing_order.price,
                                quantity |-> trade_qty,
                                trade_time_network |-> now - new_order.submit_time,
                                maker_order_type |-> existing_order.order_type]]>>]

next_match(m, now, overflow_checks) ==
    match_until_send(m, find_best_match_index(m.book, m.order), now, overflow_checks)

\* match_orders after its send: the counter, and the resting order goes
\* back when it has quantity left
match_after_send(m) ==
    [m EXCEPT !.matched = @ + 1,
              !.book = IF m.pending[1].existing_order.quantity > 0
                       THEN Append(@, m.pending[1].existing_order) ELSE @,
              !.pending = <<>>]

\* handle_order_submission up to the first send of match_orders, or to its
\* end when nothing is sent
submission_until_send(book, matched, product_id, new_order, now, overflow_checks) ==
    LET m0 == [book |-> book, order |-> new_order, matched |-> matched,
               aborted |-> FALSE, pending |-> <<>>]
        cleaned == cleanup_expired_orders(book, now)
    IN IF new_order.product_id # product_id THEN m0
       ELSE IF book = <<>> THEN [m0 EXCEPT !.book = Append(book, new_order)]
       ELSE IF cleaned = <<>> THEN [m0 EXCEPT !.book = Append(cleaned, new_order)]
       ELSE next_match([m0 EXCEPT !.book = cleaned], now, overflow_checks)

\* ------------------------------------------------- pre-loading the book
\* EngineState::create_buy_order and create_sell_order; the clock reads 1 at
\* start-up
create_buy_order(index) ==
    [order_id |-> index + 1, price |-> index + 1, quantity |-> 2,
     order_type |-> ORDER_TYPE_BUY, price_type |-> ORDER_PRICE_TYPE_LIMIT,
     submit_time |-> 1, seq |-> 0]

create_sell_order(index, size) ==
    [order_id |-> size + index + 1, price |-> size + 1 + index, quantity |-> 2,
     order_type |-> ORDER_TYPE_SELL, price_type |-> ORDER_PRICE_TYPE_LIMIT,
     submit_time |-> 1, seq |-> 0]

RECURSIVE fuel_buy_orders(_, _, _)
fuel_buy_orders(b, i, size) ==
    IF i >= size THEN b
    ELSE fuel_buy_orders(fuel_order(b, create_buy_order(i)), i + 1, size)

RECURSIVE fuel_sell_orders(_, _, _)
fuel_sell_orders(b, i, size) ==
    IF i >= size THEN b
    ELSE fuel_sell_orders(fuel_order(b, create_sell_order(i, size)), i + 1, size)

load_sample_test_book(b, test_order_book_size) ==
    fuel_sell_orders(fuel_buy_orders(b, 0, test_order_book_size),
                     0, test_order_book_size)

\* ------------------------------------------- Part 5: codec and receive loop
\* Bytes are 0..255; a buffer is a sequence of bytes, buf[i] of the code being
\* element i+1.
RECURSIVE BitXor(_, _)
BitXor(a, b) ==
    IF a = 0 THEN b
    ELSE IF b = 0 THEN a
    ELSE ((a + b) % 2) + 2 * BitXor(a \div 2, b \div 2)

\* the XOR of elements from..to of buf (XOR is associative, the fold is
\* taken by halves)
RECURSIVE XorFold(_, _, _)
XorFold(buf, from, to) ==
    IF from > to THEN 0
    ELSE IF from = to THEN buf[from]
    ELSE BitXor(XorFold(buf, from, (from + to) \div 2),
                XorFold(buf, ((from + to) \div 2) + 1, to))

\* a faulty checksum that leaves the message type byte out
calculate_checksum_of_payload(buf) == XorFold(buf, 3, Len(buf))

\* buf[1..].iter().fold(0, |acc, &x| acc ^ x)
calculate_checksum(buf) == XorFold(buf, 2, Len(buf))

\* [0u8; MESSAGE_TOTAL_SIZE]
ZeroBuffer == [i \in 1..MESSAGE_TOTAL_SIZE |-> 0]

\* value.to_be_bytes() for an unsigned integer of n bytes
RECURSIVE to_be_bytes(_, _)
to_be_bytes(value, n) ==
    IF n = 0 THEN <<>> ELSE Append(to_be_bytes(value \div 256, n - 1), value % 256)

\* uN::from_be_bytes(bytes)
RECURSIVE from_be_bytes(_)
from_be_bytes(bytes) ==
    IF bytes = <<>> THEN 0
    ELSE 256 * from_be_bytes(SubSeq(bytes, 1, Len(bytes) - 1)) + bytes[Len(bytes)]

\* buf[offset..offset + bytes.len()].copy_from_slice(&bytes)
copy_from_slice(buf, offset, bytes) ==
    [i \in 1..Len(buf) |->
        IF i > offset /\ i <= offset + Len(bytes) THEN bytes[i - offset] ELSE buf[i]]

\* buf[index] = byte
set_byte(buf, index, byte) == [buf EXCEPT ![index + 1] = byte]

\* &buf[from..to]
slice(buf, from, to) == SubSeq(buf, from + 1, to)

\* the checksum goes in last
place_checksum(buf) == set_byte(buf, 0, calculate_checksum(buf))

serialize_order_payload(buf, order) ==
    copy_from_slice(
     copy_from_slice(
      set_byte(
       set_byte(
        copy_from_slice(
         copy_from_slice(
          copy_from_slice(
           copy_from_slice(buf, PAYLOAD_START, to_be_bytes(order.product_id, 2)),
           PAYLOAD_START + 2, to_be_bytes(order.order_id, 8)),
          PAYLOAD_START + 10, to_be_bytes(order.price, 8)),
         PAYLOAD_START + 18, to_be_bytes(order.quantity, 4)),
        PAYLOAD_START + 22, order.order_type),
       PAYLOAD_START + 23, order.price_type),
      PAYLOAD_START + 24, to_be_bytes(order.submit_time, 8)),
     PAYLOAD_START + 32, to_be_bytes(order.expire_time, 8))

serialize_order(order) ==
    place_checksum(serialize_order_payload(set_byte(ZeroBuffer, 1, MSG_ORDER_SUBMIT), order))

\* the id written to slot k (0..4) of a chunk that starts at start_index: the
\* next id of the list, or 0 once the list or the chunk is used up
chunk_order_id(cancel, start_index, k) ==
    IF k < MAX_IDS_PER_CHUNK /\ start_index + k < Len(cancel.order_ids)
    THEN cancel.order_ids[start_index + k + 1]
    ELSE 0

RECURSIVE write_order_ids(_, _, _, _)
write_order_ids(buf, cancel, start_index, k) ==
    IF k = MAX_IDS_PER_CHUNK THEN buf
    ELSE write_order_ids(
             copy_from_slice(buf, PAYLOAD_START + 2 + 8 * k,
                             to_be_bytes(chunk_order_id(cancel, start_index, k), 8)),
             cancel, start_index, k + 1)

\* the message type and the checksum are not written: both statements are
\* commented out in the code
serialize_cancel_order_chunk(cancel, start_index) ==
    write_order_ids(
        copy_from_slice(ZeroBuffer, PAYLOAD_START, to_be_bytes(cancel.product_id, 2)),
        cancel, start_index, 0)

serialize_match_result(result) ==
    place_checksum(
     copy_from_slice(
      copy_from_slice(
       copy_from_slice(
        copy_from_slice(
         copy_from_slice(
          copy_from_slice(
           copy_from_slice(
            copy_from_slice(set_byte(ZeroBuffer, 1, MSG_TRADE_BROADCAST),
                            PAYLOAD_START, result.instance_tag),
            PAYLOAD_START + 8, to_be_bytes(result.product_id, 2)),
           PAYLOAD_START + 10, to_be_bytes(result.buy_order_id, 8)),
          PAYLOAD_START + 18, to_be_bytes(result.sell_order_id, 8)),
         PAYLOAD_START + 26, to_be_bytes(result.price, 8)),
        PAYLOAD_START + 34, to_be_bytes(result.quantity, 4)),
       PAYLOAD_START + 38, to_be_bytes(result.trade_time_network, 4)),
      PAYLOAD_START + 42, to_be_bytes(result.internal_match_time, 4)))

serialize_stats_result(stats) ==
    place_checksum(
     copy_from_slice(
      copy_from_slice(
       copy_from_slice(
        copy_from_slice(
         copy_from_slice(
          copy_from_slice(
           copy_from_slice(set_byte(ZeroBuffer, 1, MSG_STATUS_BROADCAST),
                           PAYLOAD_START, stats.instance_tag),
           PAYLOAD_START + 8, to_be_bytes(stats.product_id, 2)),
          PAYLOAD_START + 10, to_be_bytes(stats.bids_size, 4)),
         PAYLOAD_START + 14, to_be_bytes(stats.ask_size, 4)),
        PAYLOAD_START + 18, to_be_bytes(stats.matched_orders, 4)),
       PAYLOAD_START + 22, to_be_bytes(stats.total_received_orders, 4)),
      PAYLOAD_START + 26, to_be_bytes(stats.start_time, 8)))

\* Err("Buffer size mismatch"), Err("Checksum failed") or
\* Ok((message_type, payload))
unpack_message_payload(buf) ==
    IF Len(buf) # MESSAGE_TOTAL_SIZE THEN [ok |-> FALSE, err |-> "Buffer size mismatch"]
    ELSE IF buf[1] # calculate_checksum(buf) THEN [ok |-> FALSE, err |-> "Checksum failed"]
    ELSE [ok |-> TRUE, message_type |-> buf[2], payload |-> slice(buf, 2, Len(buf))]

deserialize_order(payload) ==
    IF Len(payload) < 40 THEN [ok |-> FALSE, err |-> "Order payload too short"]
    ELSE [ok |-> TRUE,
          order |-> [product_id |-> from_be_bytes(slice(payload, 0, 2)),
                     order_id |-> from_be_bytes(slice(payload, 2, 10)),
                     price |-> from_be_bytes(slice(payload, 10, 18)),
                     quantity |-> from_be_bytes(slice(payload, 18, 22)),
                     order_type |-> payload[23],
                     price_type |-> payload[24],
                     submit_time |-> from_be_bytes(slice(payload, 24, 32)),
                     expire_time |-> from_be_bytes(slice(payload, 32, 40))]]

\* let mut offset = PAYLOAD_START + size_of::<u8>()
cancel_offset == PAYLOAD_START + 1

\* the ids of slots k.. that are not 0, in slot order
RECURSIVE read_order_ids(_, _)
read_order_ids(buf, k) ==
    IF k = MAX_IDS_PER_CHUNK THEN <<>>
    ELSE IF from_be_bytes(slice(buf, cancel_offset + 2 + 8 * k, cancel_offset + 10 + 8 * k)) # 0
         THEN <<from_be_bytes(slice(buf, cancel_offset + 2 + 8 * k, cancel_offset + 10 + 8 * k))>>
              \o read_order_ids(buf, k + 1)
         ELSE read_order_ids(buf, k + 1)

\* the offsets are checked against MESSAGE_TOTAL_SIZE, whatever the length of
\* the slice given; the checks cannot fail
deserialize_cancel_order(buf) ==
    IF cancel_offset + 2 > MESSAGE_TOTAL_SIZE
    THEN [ok |-> FALSE, err |-> "Buffer too short for Product ID."]
    ELSE IF cancel_offset + 2 + 8 * MAX_IDS_PER_CHUNK > MESSAGE_TOTAL_SIZE
    THEN [ok |-> FALSE, err |-> "Packet truncated: Expected 5 order ID slots not found."]
    ELSE [ok |-> TRUE,
          cancel |-> [product_id |-> from_be_bytes(slice(buf, cancel_offset, cancel_offset + 2)),
                      order_ids |-> read_order_ids(buf, 0)]]

\* process_single_message on the buffer run_receive_loop hands it: what is
\* added to total_received_orders and what is sent to the matcher
process_single_message(buf) ==
    LET unpacked == unpack_message_payload(buf)
    IN IF ~unpacked.ok THEN [counted |-> 0, sent |-> <<>>, log |-> unpacked.err]
       ELSE IF unpacked.message_type = MSG_ORDER_SUBMIT
       THEN IF deserialize_order(unpacked.payload).ok
            THEN [counted |-> 1,
                  sent |-> <<[kind |-> "submit",
                              order |-> deserialize_order(unpacked.payload).order]>>,
                  log |-> "deserialize_order"]
            ELSE [counted |-> 0, sent |-> <<>>, log |-> "Error deserializing Order"]
       ELSE IF unpacked.message_type = MSG_ORDER_CANCEL
       THEN IF deserialize_cancel_order(unpacked.payload).ok
            THEN [counted |-> 1,
                  sent |-> <<[kind |-> "cancel",
                              cancel |-> deserialize_cancel_order(unpacked.payload).cancel]>>,
                  log |-> "Cancel Order"]
            ELSE [counted |-> 0, sent |-> <<>>, log |-> "Error deserializing Cancel Order"]
       ELSE [counted |-> 0, sent |-> <<>>, log |-> "Unknown message type"]

\* socket.recv_from(&mut buf): a datagram that fits is copied to the front of
\* buf and its length returned.  One that is longer than buf is cut to
\* buf.len() bytes and that length returned, or refused with an error,
\* depending on the platform (truncates says which).
recv_from(buf, datagram, truncates) ==
    IF Len(datagram) <= Len(buf)
    THEN [ok |-> TRUE, len |-> Len(datagram), buf |-> copy_from_slice(buf, 0, datagram)]
    ELSE IF truncates
    THEN [ok |-> TRUE, len |-> Len(buf), buf |-> SubSeq(datagram, 1, Len(buf))]
    ELSE [ok |-> FALSE, len |-> 0, buf |-> buf]

\* one iteration of run_receive_loop
receive_step(received) ==
    IF ~received.ok THEN [counted |-> 0, sent |-> <<>>, log |-> "UDP receive error"]
    ELSE IF received.len # MESSAGE_TOTAL_SIZE
    THEN [counted |-> 0, sent |-> <<>>, log |-> "incorrect size"]
    ELSE process_single_message(received.buf)

\* ------------------------------------------------ Part 6: CallAuctionPool
\* a pool is [bids, asks], two vectors of orders in arrival order
CallAuctionPool_new == [bids |-> <<>>, asks |-> <<>>]

add_order(pool, order) ==
    IF order.order_type \in {ORDER_TYPE_BUY, ORDER_TYPE_MOCK_BUY}
    THEN [pool EXCEPT !.bids = Append(@, order)]
    ELSE IF order.order_type \in {ORDER_TYPE_SELL, ORDER_TYPE_MOCK_SELL}
    THEN [pool EXCEPT !.asks = Append(@, order)]
    ELSE pool

\* add_order for the first n orders of a list
RECURSIVE add_order_all(_, _, _)
add_order_all(pool, orders, n) ==
    IF n = 0 THEN pool ELSE add_order(add_order_all(pool, orders, n - 1), orders[n])

\* the numbers of a set in ascending order: sort_unstable() then dedup()
RECURSIVE sort_dedup(_)
sort_dedup(values) ==
    IF values = {} THEN <<>>
    ELSE LET least == CHOOSE v \in values : \A w \in values : v <= w
         IN <<least>> \o sort_dedup(values \ {least})

\* base, base + price_tick and, when it is not negative, base - price_tick,
\* for every order price
critical_ticks_of(prices, price_tick) ==
    UNION {{(p \div price_tick) * price_tick,
            (p \div price_tick) * price_tick + price_tick}
           \cup (IF (p \div price_tick) * price_tick >= price_tick
                 THEN {(p \div price_tick) * price_tick - price_tick}
                 ELSE {})
           : p \in prices}

\* the comparators given to sort_by: does a come strictly before b
price_descending(a, b) == a.price > b.price

price_ascending(a, b) == a.price < b.price

price_descending_then_latest(a, b) ==
    a.price > b.price \/ (a.price = b.price /\ a.submit_time > b.submit_time)

price_descending_then_time(a, b) ==
    a.price > b.price \/ (a.price = b.price /\ a.submit_time < b.submit_time)

price_ascending_then_time(a, b) ==
    a.price < b.price \/ (a.price = b.price /\ a.submit_time < b.submit_time)

comes_before(a, b, comparator) ==
    IF comparator = "price_descending" THEN price_descending(a, b)
    ELSE IF comparator = "price_ascending" THEN price_ascending(a, b)
    ELSE IF comparator = "price_descending_then_time" THEN price_descending_then_time(a, b)
    ELSE price_ascending_then_time(a, b)

\* Vec::sort_by, a stable sort: each order goes after the orders already
\* placed that do not come after it
RECURSIVE insert_stable(_, _, _)
insert_stable(sorted, order, comparator) ==
    IF sorted = <<>> THEN <<order>>
    ELSE IF comes_before(order, sorted[Len(sorted)], comparator)
    THEN Append(insert_stable(SubSeq(sorted, 1, Len(sorted) - 1), order, comparator),
                sorted[Len(sorted)])
    ELSE Append(sorted, order)

RECURSIVE sort_by(_, _, _)
sort_by(orders, k, comparator) ==
    IF k = 0 THEN <<>>
    ELSE insert_stable(sort_by(orders, k - 1, comparator), orders[k], comparator)

RECURSIVE drop_bids_at_price(_, _, _)
drop_bids_at_price(w, sorted_bids, test_price) ==
    IF w.bid_ptr > 0 /\ sorted_bids[w.bid_ptr].price <= test_price
    THEN drop_bids_at_price([w EXCEPT !.total_bid_vol = @ - sorted_bids[w.bid_ptr].quantity,
                                      !.bid_ptr = @ - 1],
                            sorted_bids, test_price)
    ELSE w

\* while bid_ptr > 0 && sorted_bids[bid_ptr - 1].price < test_price
RECURSIVE drop_bids(_, _, _)
drop_bids(w, sorted_bids, test_price) ==
    IF w.bid_ptr > 0 /\ sorted_bids[w.bid_ptr].price < test_price
    THEN drop_bids([w EXCEPT !.total_bid_vol = @ - sorted_bids[w.bid_ptr].quantity,
                             !.bid_ptr = @ - 1],
                   sorted_bids, test_price)
    ELSE w

\* while ask_idx < sorted_asks.len() && sorted_asks[ask_idx].price <= test_price
RECURSIVE take_asks(_, _, _)
take_asks(w, sorted_asks, test_price) ==
    IF w.ask_idx < Len(sorted_asks) /\ sorted_asks[w.ask_idx + 1].price <= test_price
    THEN take_asks([w EXCEPT !.total_ask_vol = @ + sorted_asks[w.ask_idx + 1].quantity,
                             !.ask_idx = @ + 1],
                   sorted_asks, test_price)
    ELSE w

abs_diff(a, b) == IF a >= b THEN a - b ELSE b - a

\* the comparison of the candidate at test_price with the best so far.
\* min_imbalance starts at u32::MAX, written -1 here: it is read only once
\* max_volume > 0, and by then it has been assigned
keep_best_last_tied(w, test_price) ==
    IF Min2(w.total_bid_vol, w.total_ask_vol) > w.max_volume
    THEN [w EXCEPT !.max_volume = Min2(w.total_bid_vol, w.total_ask_vol),
                   !.best_price = test_price,
                   !.min_imbalance = abs_diff(w.total_bid_vol, w.total_ask_vol)]
    ELSE IF /\ Min2(w.total_bid_vol, w.total_ask_vol) = w.max_volume
            /\ w.max_volume > 0
            /\ abs_diff(w.total_bid_vol, w.total_ask_vol) <= w.min_imbalance
    THEN [w EXCEPT !.best_price = test_price,
                   !.min_imbalance = abs_diff(w.total_bid_vol, w.total_ask_vol)]
    ELSE w

keep_best(w, test_price) ==
    IF Min2(w.total_bid_vol, w.total_ask_vol) > w.max_volume
    THEN [w EXCEPT !.max_volume = Min2(w.total_bid_vol, w.total_ask_vol),
                   !.best_price = test_price,
                   !.min_imbalance = abs_diff(w.total_bid_vol, w.total_ask_vol)]
    ELSE IF /\ Min2(w.total_bid_vol, w.total_ask_vol) = w.max_volume
            /\ w.max_volume > 0
            /\ abs_diff(w.total_bid_vol, w.total_ask_vol) < w.min_imbalance
    THEN [w EXCEPT !.best_price = test_price,
                   !.min_imbalance = abs_diff(w.total_bid_vol, w.total_ask_vol)]
    ELSE w

\* for &test_price in &critical_ticks
RECURSIVE sweep(_, _, _, _, _)
sweep(w, critical_ticks, i, sorted_bids, sorted_asks) ==
    IF i > Len(critical_ticks) THEN w
    ELSE sweep(keep_best(take_asks(drop_bids(w, sorted_bids, critical_ticks[i]),
                                   sorted_asks, critical_ticks[i]),
                         critical_ticks[i]),
               critical_ticks, i + 1, sorted_bids, sorted_asks)

option_of(w) ==
    IF w.max_volume > 0
    THEN [some |-> TRUE, price |-> w.best_price, volume |-> w.max_volume]
    ELSE [some |-> FALSE]

calculate_match_price_final(pool, price_tick) ==
    IF pool.bids = <<>> \/ pool.asks = <<>> \/ price_tick = 0 THEN [some |-> FALSE]
    ELSE option_of(
             sweep([best_price |-> 0, max_volume |-> 0, min_imbalance |-> -1,
                    total_bid_vol |-> SumQuantity(pool.bids), total_ask_vol |-> 0,
                    bid_ptr |-> Len(pool.bids), ask_idx |-> 0],
                   sort_dedup(critical_ticks_of(
                       {pool.bids[i].price : i \in 1..Len(pool.bids)}
                       \cup {pool.asks[i].price : i \in 1..Len(pool.asks)},
                       price_tick)),
                   1,
                   sort_by(pool.bids, Len(pool.bids), "price_descending"),
                   sort_by(pool.asks, Len(pool.asks), "price_ascending")))

RECURSIVE bilateral_matching_at_bid_price(_, _)
bilateral_matching_at_bid_price(a, match_price) ==
    IF ~(a.b_idx < Len(a.eligible_bids) /\ a.s_idx < Len(a.eligible_asks)
         /\ a.total_volume_to_match > 0)
    THEN a
    ELSE LET bid == a.eligible_bids[a.b_idx + 1]
             ask == a.eligible_asks[a.s_idx + 1]
             match_qty == Min2(bid.quantity, Min2(ask.quantity, a.total_volume_to_match))
         IN bilateral_matching_at_bid_price(
                [a EXCEPT
                   !.order_execution_list =
                       IF match_qty > 0
                       THEN Append(@, [buy_order_id |-> bid.order_id,
                                       sell_order_id |-> ask.order_id,
                                       price |-> bid.price,
                                       quantity |-> match_qty])
                       ELSE @,
                   !.eligible_bids[a.b_idx + 1].quantity = @ - match_qty,
                   !.eligible_asks[a.s_idx + 1].quantity = @ - match_qty,
                   !.total_volume_to_match = @ - match_qty,
                   !.b_idx = IF bid.quantity - match_qty = 0 THEN @ + 1 ELSE @,
                   !.s_idx = IF ask.quantity - match_qty = 0 THEN @ + 1 ELSE @],
                match_price)

\* the bilateral walk of execute_auction; a holds both eligible vectors, the
\* two cursors, the volume left and the executions so far
RECURSIVE bilateral_matching(_, _)
bilateral_matching(a, match_price) ==
    IF ~(a.b_idx < Len(a.eligible_bids) /\ a.s_idx < Len(a.eligible_asks)
         /\ a.total_volume_to_match > 0)
    THEN a
    ELSE LET bid == a.eligible_bids[a.b_idx + 1]
             ask == a.eligible_asks[a.s_idx + 1]
             match_qty == Min2(bid.quantity, Min2(ask.quantity, a.total_volume_to_match))
         IN bilateral_matching(
                [a EXCEPT
                   !.order_execution_list =
                       IF match_qty > 0
                       THEN Append(@, [buy_order_id |-> bid.order_id,
                                       sell_order_id |-> ask.order_id,
                                       price |-> match_price,
                                       quantity |-> match_qty])
                       ELSE @,
                   !.eligible_bids[a.b_idx + 1].quantity = @ - match_qty,
                   !.eligible_asks[a.s_idx + 1].quantity = @ - match_qty,
                   !.total_volume_to_match = @ - match_qty,
                   !.b_idx = IF bid.quantity - match_qty = 0 THEN @ + 1 ELSE @,
                   !.s_idx = IF ask.quantity - match_qty = 0 THEN @ + 1 ELSE @],
                match_price)

\* execute_auction once the price is known: both vectors are drained, the
\* eligible orders sorted and walked, and those with quantity left put back
auction_at(pool, found, current_ts) ==
    LET a == bilateral_matching(
                 [eligible_bids |->
                      sort_by(SelectSeq(pool.bids, LAMBDA o : o.price >= found.price),
                              Len(SelectSeq(pool.bids, LAMBDA o : o.price >= found.price)),
                              "price_descending_then_time"),
                  eligible_asks |->
                      sort_by(SelectSeq(pool.asks, LAMBDA o : o.price <= found.price),
                              Len(SelectSeq(pool.asks, LAMBDA o : o.price <= found.price)),
                              "price_ascending_then_time"),
                  b_idx |-> 0, s_idx |-> 0,
                  total_volume_to_match |-> found.volume,
                  order_execution_list |-> <<>>],
                 found.price)
    IN [pool |-> [bids |-> SelectSeq(a.eligible_bids, LAMBDA o : o.quantity > 0),
                  asks |-> SelectSeq(a.eligible_asks, LAMBDA o : o.quantity > 0)],
        found |-> found,
        order_execution_list |-> a.order_execution_list,
        start_time |-> current_ts,
        end_time |-> 0]

\* a faulty execute_auction that drains the pool before it looks for a price
execute_auction_drains_first(pool, price_tick, current_ts) ==
    IF ~calculate_match_price_final(pool, price_tick).some
    THEN [pool |-> [bids |-> <<>>, asks |-> <<>>], found |-> [some |-> FALSE],
          order_execution_list |-> <<>>,
          start_time |-> current_ts, end_time |-> current_ts]
    ELSE auction_at(pool, calculate_match_price_final(pool, price_tick), current_ts)

execute_auction(pool, price_tick, current_ts) ==
    IF ~calculate_match_price_final(pool, price_tick).some
    THEN [pool |-> pool, found |-> [some |-> FALSE], order_execution_list |-> <<>>,
          start_time |-> current_ts, end_time |-> current_ts]
    ELSE auction_at(pool, calculate_match_price_final(pool, price_tick), current_ts)

\* CallAuctionPool::cancel_order
remove_first(orders, order_id) ==
    IF \E i \in 1..Len(orders) : orders[i].order_id = order_id
    THEN LET pos == CHOOSE i \in 1..Len(orders) :
                        /\ orders[i].order_id = order_id
                        /\ \A j \in 1..(i - 1) : orders[j].order_id # order_id
         IN SubSeq(orders, 1, pos - 1) \o SubSeq(orders, pos + 1, Len(orders))
    ELSE orders

CallAuctionPool_cancel_order(pool, order_id) ==
    IF \E i \in 1..Len(pool.bids) : pool.bids[i].order_id = order_id
    THEN [pool |-> [pool EXCEPT !.bids = remove_first(@, order_id)], removed |-> TRUE]
    ELSE IF \E i \in 1..Len(pool.asks) : pool.asks[i].order_id = order_id
    THEN [pool |-> [pool EXCEPT !.asks = remove_first(@, order_id)], removed |-> TRUE]
    ELSE [pool |-> pool, removed |-> FALSE]

\* ------------------------------------------------------------ the actions
CobInit(initial_top_size) ==
        LET b == ContinuousOrderBook_new(initial_top_size)
        IN /\ init_top_index_size = b.init_top_index_size
           /\ bids = b.bids
           /\ asks = b.asks
           /\ top_bids_index = b.top_bids_index
           /\ top_asks_index = b.top_asks_index
           /\ bids_index_used = b.bids_index_used
           /\ asks_index_used = b.asks_index_used
           /\ total_bid_volumn = b.total_bid_volumn
           /\ total_ask_volumn = b.total_ask_volumn
           /\ matched_orders = b.matched_orders
           /\ match_result = b.match_result
           /\ total_received_orders = 0
           /\ panicked = FALSE
           /\ last_call = [kind |-> "none"]

\* OrderMatcher::new over a fresh EngineState for the given product
MatcherInit(product_id) ==
    /\ order_book = <<>>
    /\ state_matched_orders = 0
    /\ state_product_id = product_id
    /\ matcher_clock = 1
    /\ matcher_received = 0
    /\ matcher_aborted = FALSE
    /\ matcher_call = [kind |-> "none"]

\* OrderBook::new
ObInit(initial_top_size) ==
    /\ ob = OrderBook_new(initial_top_size)
    /\ ob_received = 0
    /\ ob_call = [kind |-> "none"]

\* the channels are created empty and the three tasks are spawned
PipelineInit ==
    /\ inbound_queue = <<>>
    /\ outbound_queue = <<>>
    /\ receiver_pc = "recv"
    /\ receiver_message = [kind |-> "none"]
    /\ matcher_pc = "recv"
    /\ matcher_local = [kind |-> "none"]
    /\ broadcaster_pc = "recv"
    /\ datagrams = 0
    /\ enqueued = 0
    /\ produced = 0
    /\ handed = 0

\* CallAuctionPool::new
AuctionInit ==
    /\ pool_bids = <<>>
    /\ pool_asks = <<>>
    /\ pool_received = 0
    /\ pool_call = [kind |-> "none"]

\* NetworkHandler::new over a fresh EngineState; nothing encoded yet
WireInit ==
    /\ wire_frame = [kind |-> "none"]
    /\ net_total_received_orders = 0
    /\ net_sent = <<>>
    /\ net_call = [kind |-> "none"]
    /\ wire_steps = 0

\* MatchingEngine::new and start: an empty book, counters at 0, an empty
\* channel, and the three tasks spawned
MainInit ==
    /\ main_channel = <<>>
    /\ main_order_book = <<>>
    /\ main_matched_orders = 0
    /\ main_total_received_orders = 0
    /\ main_locks = [order_book |-> "free", matched_orders |-> "free",
                     total_received_orders |-> "free"]
    /\ receive_task = [pc |-> "recv_from", orders |-> <<>>]
    /\ process_task = [pc |-> "recv"]
    /\ stats_task = [pc |-> "lock_order_book"]
    /\ main_datagrams = 0

Init ==
    /\ \E initial_top_size \in 1..MaxTopIndexSize :
          CobInit(initial_top_size) /\ ObInit(initial_top_size)
    /\ MatcherInit(1)
    /\ PipelineInit
    /\ AuctionInit
    /\ WireInit
    /\ MainInit

\* The book the call leaves behind.  A flagged index error always aborts the
\* thread; flagged u32 arithmetic aborts it when overflow checks are compiled
\* in and leaves the wrapped value otherwise.
Commit(b, call) ==
    /\ \/ /\ ~b.oob
          /\ panicked' = FALSE
       \/ /\ b.oob \/ b.overflowed
          /\ panicked' = TRUE
    /\ init_top_index_size' = b.init_top_index_size
    /\ bids' = Rerank(b.bids)
    /\ asks' = Rerank(b.asks)
    /\ top_bids_index' = b.top_bids_index
    /\ top_asks_index' = b.top_asks_index
    /\ bids_index_used' = b.bids_index_used
    /\ asks_index_used' = b.asks_index_used
    /\ total_bid_volumn' = b.total_bid_volumn
    /\ total_ask_volumn' = b.total_ask_volumn
    /\ matched_orders' = b.matched_orders
    /\ match_result' = b.match_result
    /\ total_received_orders' = total_received_orders + 1
    /\ last_call' = call
    /\ UNCHANGED <<matcherVars, obVars, pipeVars, auctionVars, wireVars, mainVars>>

\* What current_timestamp() returns to match_against_side.  The engine's
\* clock is taken to be no earlier than any client's submit_time.
EngineTime == MaxTime

\* A SUBMIT reaches the matcher: EngineState::match_order hands it to
\* ContinuousOrderBook::match_order.
CommitSubmit(r, order) ==
    Commit(r.book, [kind |-> "submit", order |-> order,
                    residual |-> r.order.quantity, sent |-> r.sent])

ApplySubmit(order, engine_received_time) ==
    CommitSubmit(match_order(Book, order, engine_received_time), order)

\* A CANCEL reaches the matcher: ContinuousOrderBook::cancel_order.
CommitCancel(r, order_id) ==
    Commit(r.book, [kind |-> "cancel", order_id |-> order_id,
                    returned |-> r.returned])

ApplyCancel(order_id) == CommitCancel(cancel_order(Book, order_id), order_id)

Submit(order) ==
    /\ ~panicked
    /\ total_received_orders < MaxMessages
    /\ ApplySubmit(order, EngineTime)

Cancel(order_id) ==
    /\ ~panicked
    /\ total_received_orders < MaxMessages
    /\ ApplyCancel(order_id)

Next ==
    \/ \E order \in Order : Submit(order)
    \/ \E order_id \in OrderIds : Cancel(order_id)

Spec == Init /\ [][Next]_vars

\* ---- longer runs over a narrow stream: LIMIT orders at one price that all
\* carry the same submit_time, and cancels
TieOrder == {o \in LimitOrder : o.price = 1 /\ o.submit_time = 1}

TieSubmit(order) ==
    /\ ~panicked
    /\ total_received_orders < MaxTieMessages
    /\ ApplySubmit(order, EngineTime)

TieCancel(order_id) ==
    /\ ~panicked
    /\ total_received_orders < MaxTieMessages
    /\ ApplyCancel(order_id)

NextTies ==
    \/ \E order \in TieOrder : TieSubmit(order)
    \/ \E order_id \in OrderIds : TieCancel(order_id)

SpecTies == Init /\ [][NextTies]_vars

\* ---- the OrderMatcher task: run_matching_loop takes one message off the
\* receiver and handles it; every reading of the clock within one handler
\* call gives the same value, and the clock never goes back
InitMatcher ==
    /\ CobInit(MaxTopIndexSize)
    /\ ObInit(MaxTopIndexSize)
    /\ PipelineInit
    /\ AuctionInit
    /\ WireInit
    /\ MainInit
    /\ \E product_id \in ProductIds : MatcherInit(product_id)

MatcherCommit(m, now, call) ==
    /\ order_book' = m.book
    /\ state_matched_orders' = m.matched
    /\ matcher_aborted' = m.aborted
    /\ matcher_clock' = now
    /\ matcher_received' = matcher_received + 1
    /\ matcher_call' = call
    /\ UNCHANGED <<state_product_id, cobVars, obVars, pipeVars, auctionVars, wireVars, mainVars>>

MatcherCommitSubmit(m, now, new_order) ==
    MatcherCommit(m, now, [kind |-> "submit", order |-> new_order, sent |-> m.sent,
                           before |-> order_book])

MatcherSubmit(new_order) ==
    /\ ~matcher_aborted
    /\ matcher_received < MaxMatcherMessages
    /\ \E now \in matcher_clock..MaxTime : \E overflow_checks \in BOOLEAN :
          MatcherCommitSubmit(
              handle_order_submission(order_book, state_matched_orders,
                                      state_product_id, new_order, now,
                                      overflow_checks),
              now, new_order)

MatcherCancel(order_id) ==
    /\ ~matcher_aborted
    /\ matcher_received < MaxMatcherMessages
    /\ MatcherCommit([book |-> handle_order_cancellation(order_book, order_id),
                      matched |-> state_matched_orders, aborted |-> FALSE],
                     matcher_clock, [kind |-> "cancel", order_id |-> order_id])

NextMatcher ==
    \/ \E new_order \in MatcherOrder(state_product_id) : MatcherSubmit(new_order)
    \/ \E order_id \in OrderIds : MatcherCancel(order_id)

SpecMatcher == InitMatcher /\ [][NextMatcher]_vars

\* ---- a stream of orders of all four order types.  An engine is built over
\* one book: the stream goes to the ContinuousOrderBook (through
\* EngineState::match_order) or to the OrderBook (through process_order and
\* cancel_order), never to both.
MockCobSubmit(order) ==
    /\ ~panicked
    /\ ob_received = 0
    /\ total_received_orders < MaxMockMessages
    /\ ApplySubmit(order, EngineTime)

ObCommit(b, call) ==
    /\ ob' = b
    /\ ob_received' = ob_received + 1
    /\ ob_call' = call
    /\ UNCHANGED <<cobVars, matcherVars, pipeVars, auctionVars, wireVars, mainVars>>

ObCommitSubmit(m, order) ==
    ObCommit(m.book, [kind |-> "submit", order |-> order,
                      residual |-> m.order.quantity, sent |-> m.sent])

ObSubmit(order) ==
    /\ total_received_orders = 0
    /\ ob_received < MaxMockMessages
    /\ ObCommitSubmit(process_order(ob, order, EngineTime), order)

ObCommitCancel(r, order_id) ==
    ObCommit(r.book, [kind |-> "cancel", order_id |-> order_id,
                      returned |-> r.returned])

ObCancel(order_id) ==
    /\ total_received_orders = 0
    /\ ob_received < MaxMockMessages
    /\ ObCommitCancel(OrderBook_cancel_order(ob, order_id), order_id)

NextMock ==
    \/ \E order \in MockStreamOrder : MockCobSubmit(order)
    \/ \E order \in MockStreamOrder : ObSubmit(order)
    \/ \E order_id \in OrderIds : ObCancel(order_id)

SpecMock == Init /\ [][NextMock]_vars

\* ---- the OrderMatcher task fed LIMIT orders of all four order types, for
\* the engine's product, none of which expires
MatcherMockOrder(product_id) ==
    [product_id : {product_id}, order_id : OrderIds, price : Prices,
     quantity : Quantities, order_type : AllOrderTypes,
     price_type : {ORDER_PRICE_TYPE_LIMIT}, submit_time : {1},
     expire_time : {0}]

MatcherMockSubmit(new_order) ==
    /\ ~matcher_aborted
    /\ matcher_received < MaxMatcherMockMessages
    /\ \E now \in matcher_clock..MaxTime : \E overflow_checks \in BOOLEAN :
          MatcherCommitSubmit(
              handle_order_submission(order_book, state_matched_orders,
                                      state_product_id, new_order, now,
                                      overflow_checks),
              now, new_order)

MatcherMockCancel(order_id) ==
    /\ ~matcher_aborted
    /\ matcher_received < MaxMatcherMockMessages
    /\ MatcherCommit([book |-> handle_order_cancellation(order_book, order_id),
                      matched |-> state_matched_orders, aborted |-> FALSE],
                     matcher_clock, [kind |-> "cancel", order_id |-> order_id])

NextMatcherMock ==
    \/ \E new_order \in MatcherMockOrder(state_product_id) : MatcherMockSubmit(new_order)
    \/ \E order_id \in OrderIds : MatcherMockCancel(order_id)

SpecMatcherMock == InitMatcher /\ [][NextMatcherMock]_vars

\* ---- the OrderMatcher task fed LIMIT orders of any quantity a SUBMIT
\* frame can carry, 0 included, none of which expires
MatcherZeroOrder(product_id) ==
    [product_id : {product_id}, order_id : OrderIds, price : Prices,
     quantity : 0..MaxQuantity, order_type : OrderTypes,
     price_type : {ORDER_PRICE_TYPE_LIMIT}, submit_time : {1},
     expire_time : {0}]

NextMatcherZero ==
    \/ \E new_order \in MatcherZeroOrder(state_product_id) : MatcherSubmit(new_order)
    \/ \E order_id \in OrderIds : MatcherCancel(order_id)

SpecMatcherZero == InitMatcher /\ [][NextMatcherZero]_vars

\* ---- a stream of LIMIT orders for the engine's product and for others.  An
\* engine has one matcher: EngineState::match_order over the continuous
\* book, or the OrderMatcher task.
ProductOrder ==
    [product_id : ProductIds, order_id : OrderIds, price : Prices,
     quantity : Quantities, order_type : OrderTypes,
     price_type : {ORDER_PRICE_TYPE_LIMIT}, submit_time : {1}, seq : {0}]

ProductMatcherOrder ==
    [product_id : ProductIds, order_id : OrderIds, price : Prices,
     quantity : Quantities, order_type : OrderTypes,
     price_type : {ORDER_PRICE_TYPE_LIMIT}, submit_time : {1}, expire_time : {0}]

ProductSubmit(order) ==
    /\ ~panicked
    /\ matcher_received = 0
    /\ total_received_orders < MaxProductMessages
    /\ CommitSubmit(EngineState_match_order(Book, order, EngineTime), order)

ProductMatcherSubmit(new_order) ==
    /\ ~matcher_aborted
    /\ total_received_orders = 0
    /\ matcher_received < MaxProductMessages
    /\ \E now \in matcher_clock..MaxTime : \E overflow_checks \in BOOLEAN :
          MatcherCommitSubmit(
              handle_order_submission(order_book, state_matched_orders,
                                      state_product_id, new_order, now,
                                      overflow_checks),
              now, new_order)

NextProduct ==
    \/ \E order \in ProductOrder : ProductSubmit(order)
    \/ \E new_order \in ProductMatcherOrder : ProductMatcherSubmit(new_order)

SpecProduct == InitMatcher /\ [][NextProduct]_vars

\* ---- the pipeline.  Each action is one task running from one await on a
\* channel to the next.
MatcherGone == matcher_pc = "exited" \/ matcher_aborted

\* run_receive_loop reads a well-formed datagram; process_single_message
\* decodes it, counts it and comes to its send
ReceiverRecv(message) ==
    /\ receiver_pc = "recv"
    /\ datagrams < MaxDatagrams
    /\ datagrams' = datagrams + 1
    /\ receiver_message' = message
    /\ receiver_pc' = "send"
    /\ UNCHANGED <<inbound_queue, outbound_queue, matcher_pc, matcher_local,
                   broadcaster_pc, enqueued, produced, handed>>
    /\ UNCHANGED <<cobVars, matcherVars, obVars, auctionVars, wireVars, mainVars>>

\* the send of process_single_message: it waits while the channel is full;
\* once the matcher's end of the channel is gone it fails, the error is
\* logged and the message is dropped
ReceiverSend ==
    /\ receiver_pc = "send"
    /\ IF MatcherGone
       THEN UNCHANGED <<inbound_queue, enqueued>>
       ELSE /\ Len(inbound_queue) < InboundCapacity
            /\ inbound_queue' = channel_send(inbound_queue,
                                    [message |-> receiver_message, n |-> enqueued + 1])
            /\ enqueued' = enqueued + 1
    /\ receiver_message' = [kind |-> "none"]
    /\ receiver_pc' = "recv"
    /\ UNCHANGED <<outbound_queue, matcher_pc, matcher_local, broadcaster_pc,
                   datagrams, produced, handed>>
    /\ UNCHANGED <<cobVars, matcherVars, obVars, auctionVars, wireVars, mainVars>>

\* shutdown begins: the receiver task is stopped at whichever await it is
\* at, and its end of the inbound channel is dropped
ReceiverStop ==
    /\ receiver_pc # "stopped"
    /\ receiver_pc' = "stopped"
    /\ receiver_message' = [kind |-> "none"]
    /\ UNCHANGED <<inbound_queue, outbound_queue, matcher_pc, matcher_local,
                   broadcaster_pc, datagrams, enqueued, produced, handed>>
    /\ UNCHANGED <<cobVars, matcherVars, obVars, auctionVars, wireVars, mainVars>>

\* what the matcher task leaves behind when it next awaits: at the send of
\* match_orders when m holds a pending MatchResult, at recv otherwise
PipelineMatcherCommit(m, now) ==
    /\ order_book' = m.book
    /\ state_matched_orders' = m.matched
    /\ matcher_aborted' = m.aborted
    /\ matcher_clock' = now
    /\ matcher_pc' = IF m.pending # <<>> THEN "send" ELSE "recv"
    /\ matcher_local' = IF m.pending # <<>>
                        THEN [kind |-> "match", order |-> m.order, pending |-> m.pending]
                        ELSE [kind |-> "none"]
    /\ UNCHANGED <<state_product_id, cobVars, obVars, auctionVars, wireVars, mainVars>>

\* run_matching_loop takes the next message and handles it up to the first
\* send, or to the end when the handler sends nothing
MatcherHandle(taken) ==
    /\ inbound_queue' = taken.rest
    /\ matcher_received' = matcher_received + 1
    /\ matcher_call' = [kind |-> taken.message.message.kind,
                        message |-> taken.message.message,
                        n |-> taken.message.n]
    /\ IF taken.message.message.kind = "cancel"
       THEN PipelineMatcherCommit(
                [book |-> handle_order_cancellation(order_book,
                                                    taken.message.message.order_id),
                 matched |-> state_matched_orders, aborted |-> FALSE,
                 pending |-> <<>>],
                matcher_clock)
       ELSE \E now \in matcher_clock..MaxTime : \E overflow_checks \in BOOLEAN :
                PipelineMatcherCommit(
                    submission_until_send(order_book, state_matched_orders,
                                          state_product_id,
                                          taken.message.message.order,
                                          now, overflow_checks),
                    now)
    /\ UNCHANGED <<outbound_queue, receiver_pc, receiver_message, broadcaster_pc,
                   datagrams, enqueued, produced, handed>>

MatcherRecv ==
    /\ matcher_pc = "recv"
    /\ ~matcher_aborted
    /\ inbound_queue # <<>>
    /\ MatcherHandle(channel_recv(inbound_queue))

\* recv returns None once the channel is empty and the receiver's end is
\* dropped: run_matching_loop returns and the matcher's ends are dropped
MatcherExit ==
    /\ matcher_pc = "recv"
    /\ ~matcher_aborted
    /\ inbound_queue = <<>>
    /\ receiver_pc = "stopped"
    /\ matcher_pc' = "exited"
    /\ UNCHANGED <<inbound_queue, outbound_queue, receiver_pc, receiver_message,
                   matcher_local, broadcaster_pc, datagrams, enqueued, produced,
                   handed>>
    /\ UNCHANGED <<cobVars, matcherVars, obVars, auctionVars, wireVars, mainVars>>

\* the send inside the loop of match_orders: it waits while the outbound
\* channel is full; then the loop goes on to its next send or to its end
MatcherSend ==
    /\ matcher_pc = "send"
    /\ ~matcher_aborted
    /\ Len(outbound_queue) < OutboundCapacity
    /\ outbound_queue' = channel_send(outbound_queue,
                             [result |-> matcher_local.pending[1].result,
                              n |-> produced + 1])
    /\ produced' = produced + 1
    /\ \E overflow_checks \in BOOLEAN :
          PipelineMatcherCommit(
              next_match(match_after_send(
                             [book |-> order_book, order |-> matcher_local.order,
                              matched |-> state_matched_orders, aborted |-> FALSE,
                              pending |-> matcher_local.pending]),
                         matcher_clock, overflow_checks),
              matcher_clock)
    /\ UNCHANGED <<matcher_received, matcher_call>>
    /\ UNCHANGED <<inbound_queue, receiver_pc, receiver_message, broadcaster_pc,
                   datagrams, enqueued, handed>>

\* run_broadcast_loop takes one MatchResult, adds it to matched_orders,
\* serializes it and sends the frames
BroadcasterHandle(taken) ==
    /\ outbound_queue' = taken.rest
    /\ state_matched_orders' = state_matched_orders + 1
    /\ handed' = handed + 1
    /\ UNCHANGED <<order_book, state_product_id, matcher_clock, matcher_received,
                   matcher_aborted, matcher_call>>
    /\ UNCHANGED <<inbound_queue, receiver_pc, receiver_message, matcher_pc,
                   matcher_local, broadcaster_pc, datagrams, enqueued, produced>>
    /\ UNCHANGED <<cobVars, obVars, auctionVars, wireVars, mainVars>>

BroadcasterRecv ==
    /\ broadcaster_pc = "recv"
    /\ outbound_queue # <<>>
    /\ BroadcasterHandle(channel_recv(outbound_queue))

\* recv returns None once the channel is empty and the matcher's end is
\* dropped: run_broadcast_loop returns
BroadcasterExit ==
    /\ broadcaster_pc = "recv"
    /\ outbound_queue = <<>>
    /\ MatcherGone
    /\ broadcaster_pc' = "exited"
    /\ UNCHANGED <<inbound_queue, outbound_queue, receiver_pc, receiver_message,
                   matcher_pc, matcher_local, datagrams, enqueued, produced, handed>>
    /\ UNCHANGED <<cobVars, matcherVars, obVars, auctionVars, wireVars, mainVars>>

MatcherTask == MatcherRecv \/ MatcherExit \/ MatcherSend

BroadcasterTask == BroadcasterRecv \/ BroadcasterExit

NextPipeline ==
    \/ \E message \in IncomingMessage : ReceiverRecv(message)
    \/ ReceiverSend
    \/ ReceiverStop
    \/ MatcherRecv
    \/ MatcherExit
    \/ MatcherSend
    \/ BroadcasterRecv
    \/ BroadcasterExit

\* the engine for product 1 with its tasks spawned
InitPipeline ==
    /\ CobInit(MaxTopIndexSize)
    /\ ObInit(MaxTopIndexSize)
    /\ MatcherInit(1)
    /\ PipelineInit
    /\ AuctionInit
    /\ WireInit
    /\ MainInit

SpecPipeline == InitPipeline /\ [][NextPipeline]_vars

\* The runtime polls every task that can run: a task that stays able to
\* take its next step takes it.
SpecPipelineFair ==
    /\ SpecPipeline
    /\ WF_vars(ReceiverSend)
    /\ WF_vars(MatcherTask)
    /\ WF_vars(BroadcasterTask)

\* ---- the engine started with --test-order-book-size: the book is
\* pre-loaded through fuel_order before the first message is matched
CobStart(b) ==
    /\ init_top_index_size = b.init_top_index_size
    /\ bids = b.bids
    /\ asks = b.asks
    /\ top_bids_index = b.top_bids_index
    /\ top_asks_index = b.top_asks_index
    /\ bids_index_used = b.bids_index_used
    /\ asks_index_used = b.asks_index_used
    /\ total_bid_volumn = b.total_bid_volumn
    /\ total_ask_volumn = b.total_ask_volumn
    /\ matched_orders = b.matched_orders
    /\ match_result = b.match_result
    /\ total_received_orders = 0
    /\ panicked = FALSE
    /\ last_call = [kind |-> "none"]

InitLoaded ==
    /\ \E test_order_book_size \in 0..MaxTestBookSize :
          CobStart(load_sample_test_book(ContinuousOrderBook_new(MaxTopIndexSize),
                                         test_order_book_size))
    /\ ObInit(MaxTopIndexSize)
    /\ MatcherInit(1)
    /\ PipelineInit
    /\ AuctionInit
    /\ WireInit
    /\ MainInit

SpecLoaded == InitLoaded /\ [][Next]_vars

\* ---- the call auction: orders accumulate in the pool; the equilibrium
\* price is asked for, an auction is executed, an order is cancelled
AuctionPool == [bids |-> pool_bids, asks |-> pool_asks]

\* the orders of the documented scenario, in the order they are submitted
ScenarioOrders ==
    <<[order_id |-> 1, price |-> 100, quantity |-> 10, order_type |-> ORDER_TYPE_BUY, submit_time |-> 1],
      [order_id |-> 2, price |-> 99, quantity |-> 5, order_type |-> ORDER_TYPE_BUY, submit_time |-> 1],
      [order_id |-> 3, price |-> 98, quantity |-> 8, order_type |-> ORDER_TYPE_SELL, submit_time |-> 1],
      [order_id |-> 4, price |-> 101, quantity |-> 4, order_type |-> ORDER_TYPE_SELL, submit_time |-> 1]>>

\* the next order of the stream: any small order, numbered by arrival, or
\* the next order of the scenario while the stream has been the scenario
AuctionOrder ==
    [order_id : {pool_received + 1}, price : 1..MaxAuctionPrice,
     quantity : Quantities, order_type : OrderTypes, submit_time : {1}]
    \cup (IF /\ pool_received < Len(ScenarioOrders)
             /\ add_order_all(CallAuctionPool_new, ScenarioOrders, pool_received) = AuctionPool
          THEN {ScenarioOrders[pool_received + 1]}
          ELSE {})

PriceTicks == 0..MaxPriceTick

AuctionCommit(pool, call) ==
    /\ pool_bids' = pool.bids
    /\ pool_asks' = pool.asks
    /\ pool_received' = pool_received + 1
    /\ pool_call' = call
    /\ UNCHANGED <<cobVars, matcherVars, obVars, pipeVars, wireVars, mainVars>>

AuctionAdd(order) ==
    /\ pool_received < MaxAuctionCalls
    /\ Len(pool_bids) + Len(pool_asks) < MaxAuctionOrders
    /\ AuctionCommit(add_order(AuctionPool, order), [kind |-> "add", order |-> order])

AuctionPrice(price_tick) ==
    /\ pool_received < MaxAuctionCalls
    /\ AuctionCommit(AuctionPool,
                     [kind |-> "price", price_tick |-> price_tick,
                      returned |-> calculate_match_price_final(AuctionPool, price_tick)])

AuctionCommitExecute(r, price_tick) ==
    AuctionCommit(r.pool,
                  [kind |-> "execute", price_tick |-> price_tick,
                   before |-> AuctionPool, found |-> r.found,
                   order_execution_list |-> r.order_execution_list,
                   start_time |-> r.start_time, end_time |-> r.end_time])

AuctionExecute(price_tick) ==
    /\ pool_received < MaxAuctionCalls
    /\ \E current_ts \in 0..MaxCurrentTs :
          AuctionCommitExecute(execute_auction(AuctionPool, price_tick, current_ts),
                               price_tick)

AuctionCommitCancel(r, order_id) ==
    AuctionCommit(r.pool, [kind |-> "cancel", order_id |-> order_id,
                           returned |-> r.removed])

AuctionCancel(order_id) ==
    /\ pool_received < MaxAuctionCalls
    /\ AuctionCommitCancel(CallAuctionPool_cancel_order(AuctionPool, order_id), order_id)

NextAuction ==
    \/ \E order \in AuctionOrder : AuctionAdd(order)
    \/ \E price_tick \in PriceTicks : AuctionPrice(price_tick)
    \/ \E price_tick \in PriceTicks : AuctionExecute(price_tick)
    \/ \E order_id \in 1..MaxAuctionOrders : AuctionCancel(order_id)

SpecAuction == InitPipeline /\ [][NextAuction]_vars

\* ---- the call auction of orders whose submit times differ from their
\* order of arrival (submit_time is a field of the SUBMIT frame)
TimedAuctionOrder ==
    [order_id : {pool_received + 1}, price : 1..MaxTimedPrice,
     quantity : Quantities, order_type : OrderTypes,
     submit_time : 1..MaxAuctionTime]

NextAuctionTimes ==
    \/ \E order \in TimedAuctionOrder : AuctionAdd(order)
    \/ \E price_tick \in 1..MaxPriceTick : AuctionExecute(price_tick)

SpecAuctionTimes == InitPipeline /\ [][NextAuctionTimes]_vars

\* ---- the codec at work: a client or the engine encodes a message with the
\* encoders of message_codec.rs, and the NetworkHandler reads datagrams made
\* of the frame last encoded
WireOrder ==
    [product_id : {1, 258}, order_id : {1, 65537}, price : {1, 300},
     quantity : {1, 513}, order_type : OrderTypes,
     price_type : {ORDER_PRICE_TYPE_LIMIT}, submit_time : {1}, expire_time : {0}]

\* a cancel request and the index its chunk starts at; 0 is not an id
WireCancel ==
    [product_id : {1, 258}, order_ids : {<<1>>, <<2, 3>>, <<1, 2, 3, 4, 5, 6>>},
     start_index : {0, MAX_IDS_PER_CHUNK}]

WireMatchResult ==
    [instance_tag : {<<1, 2, 3, 4, 5, 6, 7, 8>>}, product_id : {1, 258},
     buy_order_id : {1}, sell_order_id : {2}, price : {1, 300}, quantity : {1},
     trade_time_network : {0, 1}, internal_match_time : {0}]

WireStats ==
    [instance_tag : {<<1, 2, 3, 4, 5, 6, 7, 8>>}, product_id : {1, 258},
     bids_size : {0, 1}, ask_size : {0}, matched_orders : {0, 1},
     total_received_orders : {2}, start_time : {1}]

Encoded(kind, message, frame) ==
    /\ wire_steps < MaxWireSteps
    /\ wire_frame' = [kind |-> kind, message |-> message, frame |-> frame]
    /\ wire_steps' = wire_steps + 1
    /\ UNCHANGED <<net_total_received_orders, net_sent, net_call>>
    /\ UNCHANGED <<cobVars, matcherVars, obVars, pipeVars, auctionVars, mainVars>>

EncodeOrder(order) == Encoded("submit", order, serialize_order(order))

EncodeCancel(cancel) ==
    /\ cancel.start_index < Len(cancel.order_ids)
    /\ Encoded("cancel", cancel,
               serialize_cancel_order_chunk(cancel, cancel.start_index))

EncodeMatchResult(result) == Encoded("trade", result, serialize_match_result(result))

EncodeStats(stats) == Encoded("stats", stats, serialize_stats_result(stats))

\* the frame cut or zero-padded to n bytes
Resize(frame, n) ==
    [i \in 1..n |-> IF i <= Len(frame) THEN frame[i] ELSE 0]

\* what may arrive on the socket once a frame has been encoded: the frame as
\* it is, with its checksum byte damaged, with a message type nobody knows,
\* and, for a cancel frame, with the message type and checksum filled in
DatagramLengths == {MinDatagramSize, MESSAGE_TOTAL_SIZE, MESSAGE_TOTAL_SIZE + 1}

FrameVariants(encoded) ==
    {encoded.frame,
     set_byte(encoded.frame, 0, BitXor(encoded.frame[1], 1)),
     place_checksum(set_byte(encoded.frame, 1, UnknownMessageType))}
    \cup (IF encoded.kind = "cancel"
          THEN {place_checksum(set_byte(encoded.frame, 1, MSG_ORDER_CANCEL))}
          ELSE {})

Datagrams(encoded) ==
    IF encoded.kind = "none" THEN {}
    ELSE {Resize(frame, n) : frame \in FrameVariants(encoded), n \in DatagramLengths}

\* one iteration of run_receive_loop, process_single_message and its send
\* included; the matcher keeps taking messages, so the send finds room
ReceiveCommit(datagram, outcome) ==
    /\ net_total_received_orders' = net_total_received_orders + outcome.counted
    /\ net_sent' = net_sent \o outcome.sent
    /\ net_call' = [kind |-> "datagram", datagram |-> datagram,
                    counted |-> outcome.counted, sent |-> outcome.sent,
                    log |-> outcome.log]
    /\ wire_steps' = wire_steps + 1
    /\ UNCHANGED wire_frame
    /\ UNCHANGED <<cobVars, matcherVars, obVars, pipeVars, auctionVars, mainVars>>

Receive(datagram) ==
    /\ wire_steps < MaxWireSteps
    /\ \E truncates \in BOOLEAN :
          ReceiveCommit(datagram, receive_step(recv_from(ZeroBuffer, datagram, truncates)))

NextWire ==
    \/ \E order \in WireOrder : EncodeOrder(order)
    \/ \E cancel \in WireCancel : EncodeCancel(cancel)
    \/ \E result \in WireMatchResult : EncodeMatchResult(result)
    \/ \E stats \in WireStats : EncodeStats(stats)
    \/ \E datagram \in Datagrams(wire_frame) : Receive(datagram)

SpecWire == InitPipeline /\ [][NextWire]_vars

\* ---- a frame is encoded and arrives with one of its bytes changed on the
\* way: any position of the frame, any other value of the byte.  The
\* datagram is as long as the receive buffer, so recv_from copies it whole
ByteValues == 0..255

ReceiveChanged(index, byte) ==
    /\ wire_steps < MaxChangedSteps
    /\ wire_frame.kind # "none"
    /\ byte # wire_frame.frame[index + 1]
    /\ ReceiveCommit(set_byte(wire_frame.frame, index, byte),
                     receive_step(recv_from(ZeroBuffer,
                                            set_byte(wire_frame.frame, index, byte),
                                            TRUE)))

\* one message of each type
ChangedOrders ==
    {order \in WireOrder : /\ order.product_id = 1
                           /\ order.order_id = 1
                           /\ order.price = 300
                           /\ order.quantity = 1
                           /\ order.order_type = ORDER_TYPE_BUY}

ChangedCancels ==
    {cancel \in WireCancel : /\ cancel.product_id = 1
                             /\ cancel.start_index = 0
                             /\ Len(cancel.order_ids) = 2}

ChangedMatchResults ==
    {result \in WireMatchResult : /\ result.product_id = 1
                                  /\ result.price = 300
                                  /\ result.trade_time_network = 0}

ChangedStats ==
    {stats \in WireStats : /\ stats.product_id = 1
                           /\ stats.bids_size = 1
                           /\ stats.matched_orders = 0}

NextWireChanged ==
    \/ \E order \in ChangedOrders : wire_steps < MaxChangedSteps - 1 /\ EncodeOrder(order)
    \/ \E cancel \in ChangedCancels : wire_steps < MaxChangedSteps - 1 /\ EncodeCancel(cancel)
    \/ \E result \in ChangedMatchResults :
          wire_steps < MaxChangedSteps - 1 /\ EncodeMatchResult(result)
    \/ \E stats \in ChangedStats : wire_steps < MaxChangedSteps - 1 /\ EncodeStats(stats)
    \/ \E index \in 0..(MESSAGE_TOTAL_SIZE - 1) : \E byte \in ByteValues :
          ReceiveChanged(index, byte)

SpecWireChanged == InitPipeline /\ [][NextWireChanged]_vars

\* ======================================================================
\* Part 7: MatchingEngine (main.rs)
\* ======================================================================
\* the orders of this engine's asset that a datagram carries
MainOrder ==
    [order_id : {1}, price : {1}, quantity : Quantities, order_type : OrderTypes]

MainDatagram ==
    UNION {[1..n -> MainOrder] : n \in 1..MaxDatagramOrders}

\* order_book.iter().enumerate().find(..): the first resting SELL order an
\* incoming BUY order reaches, 0 for None
main_matching_index(order_book_, new_order) ==
    IF \E i \in 1..Len(order_book_) :
            /\ new_order.order_type = ORDER_TYPE_BUY
            /\ order_book_[i].order_type = ORDER_TYPE_SELL
            /\ new_order.price >= order_book_[i].price
    THEN CHOOSE i \in 1..Len(order_book_) :
            /\ new_order.order_type = ORDER_TYPE_BUY
            /\ order_book_[i].order_type = ORDER_TYPE_SELL
            /\ new_order.price >= order_book_[i].price
            /\ \A j \in 1..(i - 1) :
                  ~(/\ order_book_[j].order_type = ORDER_TYPE_SELL
                    /\ new_order.price >= order_book_[j].price)
    ELSE 0

\* the book once order i has been filled by fill_quantity
main_book_after_fill(order_book_, i, fill_quantity) ==
    IF order_book_[i].quantity > fill_quantity
    THEN [order_book_ EXCEPT ![i].quantity = @ - fill_quantity]
    ELSE Remove(order_book_, i)

\* the rest of the model, which this engine has no part in
MainUnchanged == UNCHANGED <<cobVars, matcherVars, obVars, pipeVars, auctionVars, wireVars>>

\* ---- receive_orders
\* socket.recv_from(&mut buf).await returns a datagram
ReceiveOrdersRecv(datagram) ==
    /\ receive_task.pc = "recv_from"
    /\ main_datagrams < MaxMainDatagrams
    /\ main_datagrams' = main_datagrams + 1
    /\ receive_task' = [pc |-> "lock_total_received_orders", orders |-> datagram]
    /\ UNCHANGED <<main_channel, main_order_book, main_matched_orders,
                   main_total_received_orders, main_locks, process_task, stats_task>>
    /\ MainUnchanged

\* self.total_received_orders.lock().await; *total += 1; the guard lives to
\* the end of the match arm, across process_order_buffer
ReceiveOrdersLock ==
    /\ receive_task.pc = "lock_total_received_orders"
    /\ main_locks.total_received_orders = "free"
    /\ main_locks' = [main_locks EXCEPT !.total_received_orders = "receive"]
    /\ main_total_received_orders' = main_total_received_orders + 1
    /\ receive_task' = [receive_task EXCEPT !.pc = "send"]
    /\ UNCHANGED <<main_channel, main_order_book, main_matched_orders,
                   process_task, stats_task, main_datagrams>>
    /\ MainUnchanged

\* tx.send(order).await of process_order_buffer; after the last order of the
\* datagram the guard on total_received_orders is dropped
ReceiveOrdersSend ==
    /\ receive_task.pc = "send"
    /\ Len(main_channel) < MainChannelCapacity
    /\ main_channel' = Append(main_channel, Head(receive_task.orders))
    /\ IF Len(receive_task.orders) > 1
       THEN /\ receive_task' = [receive_task EXCEPT !.orders = Tail(@)]
            /\ UNCHANGED main_locks
       ELSE /\ receive_task' = [pc |-> "recv_from", orders |-> <<>>]
            /\ main_locks' = [main_locks EXCEPT !.total_received_orders = "free"]
    /\ UNCHANGED <<main_order_book, main_matched_orders, main_total_received_orders,
                   process_task, stats_task, main_datagrams>>
    /\ MainUnchanged

\* ---- process_orders
\* where the loop "while order.quantity > 0" and the test after it lead
process_next_pc(order) ==
    IF order.quantity > 0 THEN "lock_order_book" ELSE "recv"

\* rx.recv().await
ProcessOrdersRecv ==
    /\ process_task.pc = "recv"
    /\ main_channel # <<>>
    /\ main_channel' = Tail(main_channel)
    /\ process_task' = [pc |-> process_next_pc(Head(main_channel)),
                        order |-> Head(main_channel)]
    /\ UNCHANGED <<main_order_book, main_matched_orders, main_total_received_orders,
                   main_locks, receive_task, stats_task, main_datagrams>>
    /\ MainUnchanged

\* match_orders up to its second lock: the book is locked and searched; on a
\* match both orders are updated and the guard is kept, on None it is
\* dropped and the loop is left for add_order_to_book
ProcessOrdersMatch(i) ==
    /\ process_task.pc = "lock_order_book"
    /\ main_locks.order_book = "free"
    /\ IF i # 0
       THEN /\ main_locks' = [main_locks EXCEPT !.order_book = "process"]
            /\ main_order_book' =
                   main_book_after_fill(main_order_book, i,
                                        Min2(process_task.order.quantity,
                                             main_order_book[i].quantity))
            /\ process_task' =
                   [pc |-> "lock_matched_orders",
                    order |-> [process_task.order EXCEPT
                                  !.quantity = @ - Min2(@, main_order_book[i].quantity)]]
       ELSE /\ process_task' = [process_task EXCEPT !.pc = "add_order_to_book"]
            /\ UNCHANGED <<main_locks, main_order_book>>
    /\ UNCHANGED <<main_channel, main_matched_orders, main_total_received_orders,
                   receive_task, stats_task, main_datagrams>>
    /\ MainUnchanged

\* self.matched_orders.lock().await inside match_orders, its return (both
\* guards dropped) and broadcast_match
ProcessOrdersCount ==
    /\ process_task.pc = "lock_matched_orders"
    /\ main_locks.matched_orders = "free"
    /\ main_matched_orders' = main_matched_orders + 1
    /\ main_locks' = [main_locks EXCEPT !.order_book = "free"]
    /\ process_task' = [process_task EXCEPT !.pc = process_next_pc(process_task.order)]
    /\ UNCHANGED <<main_channel, main_order_book, main_total_received_orders,
                   receive_task, stats_task, main_datagrams>>
    /\ MainUnchanged

\* add_order_to_book
ProcessOrdersAdd ==
    /\ process_task.pc = "add_order_to_book"
    /\ main_locks.order_book = "free"
    /\ main_order_book' = Append(main_order_book, process_task.order)
    /\ process_task' = [pc |-> "recv"]
    /\ UNCHANGED <<main_channel, main_matched_orders, main_total_received_orders,
                   main_locks, receive_task, stats_task, main_datagrams>>
    /\ MainUnchanged

\* ---- broadcast_stats, called every 10 seconds
\* one of the three lock().await of broadcast_stats, taken in the order
\* order_book, matched_orders, total_received_orders
BroadcastStatsLock(mutex, next_pc) ==
    /\ main_locks[mutex] = "free"
    /\ main_locks' = [main_locks EXCEPT ![mutex] = "stats"]
    /\ stats_task' = [pc |-> next_pc]
    /\ UNCHANGED <<main_channel, main_order_book, main_matched_orders,
                   main_total_received_orders, receive_task, process_task,
                   main_datagrams>>
    /\ MainUnchanged

BroadcastStatsOrderBook ==
    stats_task.pc = "lock_order_book" /\ BroadcastStatsLock("order_book", "lock_matched_orders")

BroadcastStatsMatchedOrders ==
    /\ stats_task.pc = "lock_matched_orders"
    /\ BroadcastStatsLock("matched_orders", "lock_total_received_orders")

\* the third lock, the snapshot, and the three guards dropped at the return;
\* the task then sleeps and starts over
BroadcastStatsTotal ==
    /\ stats_task.pc = "lock_total_received_orders"
    /\ main_locks.total_received_orders = "free"
    /\ main_locks' = [main_locks EXCEPT !.order_book = "free", !.matched_orders = "free"]
    /\ stats_task' = [pc |-> "lock_order_book"]
    /\ UNCHANGED <<main_channel, main_order_book, main_matched_orders,
                   main_total_received_orders, receive_task, process_task,
                   main_datagrams>>
    /\ MainUnchanged

\* a step of one of the three tasks on what is already in the engine
MainTaskStep ==
    \/ ReceiveOrdersLock
    \/ ReceiveOrdersSend
    \/ ProcessOrdersRecv
    \/ ProcessOrdersMatch(main_matching_index(main_order_book, process_task.order))
    \/ ProcessOrdersCount
    \/ ProcessOrdersAdd
    \/ BroadcastStatsOrderBook
    \/ BroadcastStatsMatchedOrders
    \/ BroadcastStatsTotal

NextMain ==
    \/ \E datagram \in MainDatagram : ReceiveOrdersRecv(datagram)
    \/ MainTaskStep

SpecMain == InitPipeline /\ [][NextMain]_vars

\* ======================================================================
\* Properties of the continuous book
\* ======================================================================
Min(a, b) == IF a < b THEN a ELSE b

\* the ids resting in the book
RestingIds(book_bids, book_asks) ==
    {book_bids[i].order_id : i \in 1..Len(book_bids)}
    \cup {book_asks[i].order_id : i \in 1..Len(book_asks)}

\* no two resting orders share an order_id
UniqueIds(book_bids, book_asks) ==
    Cardinality(RestingIds(book_bids, book_asks)) = Len(book_bids) + Len(book_asks)

\* the executions a call sent (none for a cancel)
Execs(call) ==
    IF call.kind = "submit" /\ call.sent # <<>> THEN call.sent[1] ELSE <<>>

\* the side a taker is matched against, in a given book
MakerSide(call, book_bids, book_asks) ==
    IF call.order.order_type = ORDER_TYPE_BUY THEN book_asks ELSE book_bids

\* the side a taker rests on, in a given book
OwnSide(call, book_bids, book_asks) ==
    IF call.order.order_type = ORDER_TYPE_BUY THEN book_bids ELSE book_asks

\* the resting order of arrival rank m on a side
MakerAt(side, m) == side[CHOOSE i \in 1..Len(side) : side[i].seq = m]

\* quantity executed against the maker of rank m before the k-th execution
RECURSIVE FilledBefore(_, _, _)
FilledBefore(execs, m, k) ==
    IF k <= 1 THEN 0
    ELSE FilledBefore(execs, m, k - 1)
         + (IF execs[k - 1].maker_seq = m THEN execs[k - 1].quantity ELSE 0)

\* quantity executed before the k-th execution
RECURSIVE ExecutedBefore(_, _)
ExecutedBefore(execs, k) ==
    IF k <= 1 THEN 0 ELSE ExecutedBefore(execs, k - 1) + execs[k - 1].quantity

\* a strictly better price for the taker of this call
StrictlyBetterPrice(call, a, b) ==
    IF call.order.order_type = ORDER_TYPE_BUY THEN a.price < b.price
    ELSE a.price > b.price

\* C1 (price priority): when a taker is filled against a resting order, every
\* resting order of that side with a strictly better price (lower ask for a
\* BUY taker, higher bid for a SELL taker) has already been consumed entirely.
C1_PricePriority ==
    [][last_call'.kind = "submit" =>
        LET call == last_call'
            execs == Execs(call)
            makers == MakerSide(call, bids, asks)
        IN \A k \in 1..Len(execs) : \A i \in 1..Len(makers) :
              StrictlyBetterPrice(call, makers[i], MakerAt(makers, execs[k].maker_seq))
              => FilledBefore(execs, makers[i].seq, k) = makers[i].quantity]_vars

\* a BUY was filled at the best ask while a worse-priced ask stayed behind
C1_Witness ==
    /\ last_call.kind = "submit"
    /\ last_call.order.order_type = ORDER_TYPE_BUY
    /\ Execs(last_call) # <<>>
    /\ \E i \in 1..Len(asks) : asks[i].price > Execs(last_call)[1].price

\* C2 (time priority): when a taker is filled against a resting
\* order, every order of the same side and price that came to rest earlier
\* has already been consumed entirely.  Stated for books whose resting
\* orders carry distinct ids and a taker whose id is new to the book.
C2_TimePriority ==
    [][(/\ last_call'.kind = "submit"
        /\ UniqueIds(bids, asks)
        /\ last_call'.order.order_id \notin RestingIds(bids, asks)) =>
        LET call == last_call'
            execs == Execs(call)
            makers == MakerSide(call, bids, asks)
        IN \A k \in 1..Len(execs) : \A i \in 1..Len(makers) :
              LET maker == MakerAt(makers, execs[k].maker_seq)
              IN (makers[i].price = maker.price /\ makers[i].seq < maker.seq)
                 => FilledBefore(execs, makers[i].seq, k) = makers[i].quantity]_vars

\* C3 (maker pricing): every execution carries the price of the resting
\* order it fills, for LIMIT and MARKET takers alike.
C3_MakerPricing ==
    [][last_call'.kind = "submit" =>
        LET call == last_call'
            execs == Execs(call)
            makers == MakerSide(call, bids, asks)
        IN \A k \in 1..Len(execs) :
              execs[k].price = MakerAt(makers, execs[k].maker_seq).price]_vars

\* a LIMIT taker was filled at a price other than its own limit
C3_Witness ==
    /\ last_call.kind = "submit"
    /\ last_call.order.price_type = ORDER_PRICE_TYPE_LIMIT
    /\ Execs(last_call) # <<>>
    /\ Execs(last_call)[1].price # last_call.order.price

\* C5 (fill quantity): each execution is for the minimum of what the taker
\* and the maker have left at that moment, hence never for more than either
\* order's quantity at submission.
C5_FillQuantity ==
    [][last_call'.kind = "submit" =>
        LET call == last_call'
            execs == Execs(call)
            makers == MakerSide(call, bids, asks)
        IN \A k \in 1..Len(execs) :
              LET maker == MakerAt(makers, execs[k].maker_seq)
              IN /\ execs[k].quantity =
                      Min(call.order.quantity - ExecutedBefore(execs, k),
                          maker.quantity - FilledBefore(execs, maker.seq, k))
                 /\ execs[k].quantity <= call.order.quantity
                 /\ execs[k].quantity <= maker.quantity]_vars

\* a taker for 2 was filled in two executions of 1
C5_Witness ==
    /\ last_call.kind = "submit"
    /\ last_call.order.quantity = 2
    /\ Len(Execs(last_call)) = 2
    /\ Execs(last_call)[1].quantity = 1
    /\ Execs(last_call)[2].quantity = 1

\* some resting order of the maker side passes the taker's price check
Crosses(call, makers) ==
    \E i \in 1..Len(makers) :
        price_check_ok(call.order, makers[i], call.order.order_type = ORDER_TYPE_BUY)

\* C6 (residual rests): after a LIMIT submission the taker's own side is the
\* side as it was, followed by the taker with exactly its unfilled quantity
\* when that is positive, and unchanged when the taker was filled entirely;
\* a LIMIT order that crosses nothing has no executions and rests in full.
C6_ResidualRests ==
    [][(last_call'.kind = "submit"
        /\ last_call'.order.price_type = ORDER_PRICE_TYPE_LIMIT) =>
        LET call == last_call'
            execs == Execs(call)
            unfilled == call.order.quantity - ExecutedBefore(execs, Len(execs) + 1)
            own == OwnSide(call, bids, asks)
            own_after == OwnSide(call, bids', asks')
        IN /\ unfilled > 0 =>
                own_after = Append(own, [call.order EXCEPT !.quantity = unfilled,
                                                          !.seq = Len(own) + 1])
           /\ unfilled = 0 => own_after = own
           /\ ~Crosses(call, MakerSide(call, bids, asks)) =>
                execs = <<>> /\ unfilled = call.order.quantity]_vars

\* a LIMIT order was filled in part and rests with the remainder
C6_Witness ==
    /\ last_call.kind = "submit"
    /\ last_call.order.price_type = ORDER_PRICE_TYPE_LIMIT
    /\ Execs(last_call) # <<>>
    /\ LET own == OwnSide(last_call, bids, asks)
       IN /\ own # <<>>
          /\ own[Len(own)].order_id = last_call.order.order_id
          /\ own[Len(own)].quantity = 1
          /\ last_call.order.quantity = 2

\* ---- the walk of the book, as the price-time rule prescribes it
\* better for the taker of this call: price first, then earlier arrival
WalkBefore(call, a, b) ==
    \/ StrictlyBetterPrice(call, a, b)
    \/ a.price = b.price /\ a.seq < b.seq

\* the makers of a side in the order the rule prescribes
RECURSIVE WalkOrder(_, _)
WalkOrder(call, makers) ==
    IF makers = {} THEN <<>>
    ELSE LET first == CHOOSE a \in makers :
                          \A b \in makers \ {a} : WalkBefore(call, a, b)
         IN <<first>> \o WalkOrder(call, makers \ {first})

\* the executions the rule prescribes for a taker with `left` to fill
RECURSIVE WalkExecs(_, _, _)
WalkExecs(call, queue, left) ==
    IF left = 0 \/ queue = <<>> THEN <<>>
    ELSE IF ~price_check_ok(call.order, queue[1],
                            call.order.order_type = ORDER_TYPE_BUY)
    THEN <<>>
    ELSE LET q == Min(left, queue[1].quantity)
         IN <<[maker_seq |-> queue[1].seq, price |-> queue[1].price, quantity |-> q]>>
            \o WalkExecs(call, Tail(queue), left - q)

\* C4 (walking the book): a LIMIT taker is executed against the
\* makers in price order and, within a price, in order of arrival, each for
\* the minimum of the two remainders, until the first maker beyond the limit
\* or until the taker is exhausted; consumed makers leave the book and the
\* last maker touched keeps its remainder.  Stated for books whose resting
\* orders carry distinct ids and a taker whose id is new to the book.
C4_WalkTheBook ==
    [][(/\ last_call'.kind = "submit"
        /\ last_call'.order.price_type = ORDER_PRICE_TYPE_LIMIT
        /\ UniqueIds(bids, asks)
        /\ last_call'.order.order_id \notin RestingIds(bids, asks)) =>
        LET call == last_call'
            execs == Execs(call)
            makers == MakerSide(call, bids, asks)
            makers_after == MakerSide(call, bids', asks')
            walk == WalkExecs(call,
                              WalkOrder(call, {makers[i] : i \in 1..Len(makers)}),
                              call.order.quantity)
            filled(m) == FilledBefore(walk, m, Len(walk) + 1)
        IN /\ Len(execs) = Len(walk)
           /\ \A k \in 1..Len(walk) :
                 /\ execs[k].maker_seq = walk[k].maker_seq
                 /\ execs[k].price = walk[k].price
                 /\ execs[k].quantity = walk[k].quantity
           /\ Len(makers_after)
                 = Cardinality({i \in 1..Len(makers) :
                                   filled(makers[i].seq) < makers[i].quantity})
           /\ \A i \in 1..Len(makers) :
                 filled(makers[i].seq) < makers[i].quantity =>
                     \E j \in 1..Len(makers_after) :
                        /\ makers_after[j].order_id = makers[i].order_id
                        /\ makers_after[j].price = makers[i].price
                        /\ makers_after[j].submit_time = makers[i].submit_time
                        /\ makers_after[j].quantity
                              = makers[i].quantity - filled(makers[i].seq)]_vars

\* a side without the arrival ranks, as a sequence
Unranked(side) == [i \in 1..Len(side) |-> [side[i] EXCEPT !.seq = 0]]

\* C8 (successful cancel): after cancel_order returned true the
\* id rests nowhere in the book (so a second cancel of it returns false), and
\* exactly one order left the book, every other one keeping its quantity.
C8_CancelRemoves ==
    [][(last_call'.kind = "cancel" /\ last_call'.returned) =>
        /\ last_call'.order_id \notin RestingIds(bids', asks')
        /\ Len(bids') + Len(asks') = Len(bids) + Len(asks) - 1
        /\ \A i \in 1..Len(bids) :
              bids[i].order_id # last_call'.order_id =>
                 \E j \in 1..Len(bids') : Unranked(bids')[j] = Unranked(bids)[i]
        /\ \A i \in 1..Len(asks) :
              asks[i].order_id # last_call'.order_id =>
                 \E j \in 1..Len(asks') : Unranked(asks')[j] = Unranked(asks)[i]]_vars

\* C9 (cancel miss): cancelling an id that does not rest in the book returns
\* false and leaves the resting orders, the totals and the top indices as
\* they were.
C9_CancelMiss ==
    [][(last_call'.kind = "cancel"
        /\ last_call'.order_id \notin RestingIds(bids, asks)) =>
        /\ ~last_call'.returned
        /\ UNCHANGED <<bids, asks, top_bids_index, top_asks_index,
                       bids_index_used, asks_index_used,
                       total_bid_volumn, total_ask_volumn>>]_vars

\* a cancel missed while orders were resting
C9_Witness ==
    /\ last_call.kind = "cancel"
    /\ ~last_call.returned
    /\ bids # <<>>
    /\ asks # <<>>

\* C10 (volume totals): between two messages each total equals
\* the sum of the remaining quantities resting on its side.
C10_TotalsMatchBook ==
    /\ total_bid_volumn = SumQuantity(bids)
    /\ total_ask_volumn = SumQuantity(asks)


\* C7: a MARKET order is never added to the book as a resting order,
\* whatever the book held when it arrived and whatever is left of it.
C7_MarketNeverRests ==
    /\ \A i \in 1..Len(order_book) : order_book[i].price_type # ORDER_PRICE_TYPE_MARKET
    /\ \A i \in 1..Len(bids) : bids[i].price_type # ORDER_PRICE_TYPE_MARKET
    /\ \A i \in 1..Len(asks) : asks[i].price_type # ORDER_PRICE_TYPE_MARKET


\* C11 (MARKET residual and the totals): a MARKET BUY that ends with
\* unfilled quantity leaves total_bid_volumn as it was, and a MARKET SELL
\* that ends with unfilled quantity leaves total_ask_volumn as it was.
C11_MarketResidualNotCounted ==
    [][(/\ last_call'.kind = "submit"
        /\ last_call'.order.price_type = ORDER_PRICE_TYPE_MARKET
        /\ last_call'.residual > 0) =>
        /\ last_call'.order.order_type = ORDER_TYPE_BUY
              => total_bid_volumn' = total_bid_volumn
        /\ last_call'.order.order_type = ORDER_TYPE_SELL
              => total_ask_volumn' = total_ask_volumn]_vars


\* C14 (duplicate order_id): a submission whose order_id already rests in
\* the book produces no executions and leaves both sides as they were, so
\* that afterwards no two resting orders carry the same order_id.
C14_DuplicateRejected ==
    [][(/\ last_call'.kind = "submit"
        /\ last_call'.order.order_id \in RestingIds(bids, asks)) =>
        /\ Execs(last_call') = <<>>
        /\ Unranked(bids') = Unranked(bids)
        /\ Unranked(asks') = Unranked(asks)
        /\ UniqueIds(bids, asks) => UniqueIds(bids', asks')]_vars


\* ======================================================================
\* Properties of mock orders
\* ======================================================================
IsMock(order) == order.order_type \in {ORDER_TYPE_MOCK_BUY, ORDER_TYPE_MOCK_SELL}

AsReal(order) ==
    [order EXCEPT !.order_type = IF @ = ORDER_TYPE_MOCK_BUY THEN ORDER_TYPE_BUY
                                 ELSE IF @ = ORDER_TYPE_MOCK_SELL THEN ORDER_TYPE_SELL
                                 ELSE @]

\* ids, price and quantity of every execution of a list, in order
Fills(executions) ==
    [k \in 1..Len(executions) |->
        [buy_order_id |-> executions[k].buy_order_id,
         sell_order_id |-> executions[k].sell_order_id,
         price |-> executions[k].price,
         quantity |-> executions[k].quantity]]

\* the executions of the one MatchResult a call sent, none when it sent nothing
FirstSent(sent) == IF sent = <<>> THEN <<>> ELSE sent[1]

\* what the OrderBook reports for a mock order is what it would report for
\* the real order against the same book
MockSameAsReal_OrderBook ==
    [][(ob_call'.kind = "submit" /\ ob_received' # ob_received
        /\ IsMock(ob_call'.order)) =>
           Fills(ob_call'.sent)
               = Fills(process_order(ob, AsReal(ob_call'.order), EngineTime).sent)]_vars

\* the same for the ContinuousOrderBook
MockSameAsReal_ContinuousOrderBook ==
    [][(last_call'.kind = "submit" /\ total_received_orders' # total_received_orders
        /\ IsMock(last_call'.order)) =>
           Fills(Execs(last_call'))
               = Fills(FirstSent(match_order(Book, AsReal(last_call'.order),
                                             EngineTime).sent))]_vars

\* C13 (mock reports what real would): a MOCK_BUY or MOCK_SELL submission
\* reports the executions, maker ids, prices and quantities in the same
\* order, that the BUY or SELL order of the same price type, price and
\* quantity would report against the same book, however many makers it
\* consumes.
C13_MockSameAsReal ==
    MockSameAsReal_OrderBook /\ MockSameAsReal_ContinuousOrderBook


\* ======================================================================
\* Properties of the sides
\* ======================================================================
\* the side an order_type stands for
IsBuySide(order_type) == order_type \in {ORDER_TYPE_BUY, ORDER_TYPE_MOCK_BUY}

\* C15 (no same-side fill): in every execution the OrderMatcher sends, the
\* incoming order and the resting order it fills are on opposite sides, one
\* a buy (BUY or MOCK_BUY) and the other a sell (SELL or MOCK_SELL).
C15_OppositeSides ==
    [][(matcher_call'.kind = "submit" /\ matcher_received' # matcher_received) =>
          \A k \in 1..Len(matcher_call'.sent) :
              IsBuySide(matcher_call'.sent[k].maker_order_type)
                  # IsBuySide(matcher_call'.order.order_type)]_vars


\* ======================================================================
\* Properties of the product check
\* ======================================================================
\* C16 (foreign product rejected): a SUBMIT whose product_id is not the
\* engine's is counted as received, produces no execution and leaves the
\* book as it was, in the OrderMatcher and in EngineState::match_order over
\* the continuous book.
C16_ForeignProductRejected ==
    [][/\ (/\ matcher_call'.kind = "submit"
           /\ matcher_received' # matcher_received
           /\ matcher_call'.order.product_id # state_product_id) =>
              /\ matcher_received' = matcher_received + 1
              /\ matcher_call'.sent = <<>>
              /\ order_book' = order_book
       /\ (/\ last_call'.kind = "submit"
           /\ total_received_orders' # total_received_orders
           /\ last_call'.order.product_id # state_product_id) =>
              /\ total_received_orders' = total_received_orders + 1
              /\ Execs(last_call') = <<>>
              /\ bids' = bids
              /\ asks' = asks]_vars


\* ======================================================================
\* Properties of the pipeline
\* ======================================================================
\* how many orders with this id rest in the matcher's book
CountId(book, order_id) ==
    Cardinality({i \in 1..Len(book) : book[i].order_id = order_id})

\* C17 (receive order): the matcher takes the messages one at a time in the
\* order in which the receiver put them on the inbound queue, the k-th
\* message it applies being the k-th enqueued; and a CANCEL it applies
\* while an order with that id rests in the book removes one such order.
C17_AppliedInEnqueueOrder ==
    [][matcher_received' # matcher_received =>
          /\ matcher_received' = matcher_received + 1
          /\ matcher_call'.n = matcher_received'
          /\ (matcher_call'.kind = "cancel"
              /\ CountId(order_book, matcher_call'.message.order_id) > 0) =>
                 CountId(order_book', matcher_call'.message.order_id)
                     = CountId(order_book, matcher_call'.message.order_id) - 1]_vars

\* the matcher has applied, as its second message, the CANCEL of the order
\* whose SUBMIT was enqueued just before it; the order is gone, and a third
\* message enqueued behind the CANCEL is still waiting
C17_Witness ==
    /\ matcher_call.kind = "cancel"
    /\ matcher_call.n = 2
    /\ enqueued = 3
    /\ order_book = <<>>
    /\ Len(inbound_queue) = 1


\* C18 (the match step does not suspend): while a message is being applied,
\* from the moment the matcher takes it to the moment its last execution is
\* produced and the book is updated, the matcher is never waiting at a send
\* for room in a full outbound queue.
C18_NoWaitInsideMatch ==
    ~(/\ matcher_pc = "send"
      /\ ~matcher_aborted
      /\ Len(outbound_queue) >= OutboundCapacity)


\* a send that completes while the other end of the channel is alive puts
\* the message at the back of the queue, which had room
SendsReachQueue ==
    [][/\ (receiver_pc = "send" /\ receiver_pc' = "recv" /\ ~MatcherGone) =>
              /\ Len(inbound_queue) < InboundCapacity
              /\ inbound_queue' = Append(inbound_queue,
                                      [message |-> receiver_message, n |-> enqueued'])
       /\ produced' # produced =>
              /\ Len(outbound_queue) < OutboundCapacity
              /\ outbound_queue' = Append(outbound_queue,
                                       [result |-> matcher_local.pending[1].result,
                                        n |-> produced'])]_vars

\* the matcher catches up with the receiver for good: every message put on
\* the inbound queue is applied
EnqueuedIsApplied == <>[](matcher_received = enqueued)

\* the broadcaster catches up with the matcher for good: every MatchResult
\* put on the outbound queue is handed to it
ProducedIsHanded == <>[](handed = produced)

\* C19 (nothing lost to a full queue): a sender whose queue is full waits
\* and its message goes on the queue when there is room; under fair
\* scheduling every message enqueued for the matcher is applied and every
\* MatchResult the matcher produced is handed to the broadcaster.
C19_NoLossToFullQueue ==
    SendsReachQueue /\ EnqueuedIsApplied /\ ProducedIsHanded


\* a task that has left its loop has left nothing in its input queue
ExitedMeansDrained ==
    [](/\ matcher_pc = "exited" =>
              inbound_queue = <<>> /\ matcher_received = enqueued
       /\ broadcaster_pc = "exited" =>
              outbound_queue = <<>> /\ handed = produced)

\* C20 (shutdown drains): once the receiver has stopped and the inbound
\* queue is closed, the matcher applies every message still queued and
\* exits, and the broadcaster serializes every MatchResult still queued and
\* exits; no MatchResult the matcher produced is left unsent.
C20_ShutdownDrains ==
    /\ ExitedMeansDrained
    /\ (receiver_pc = "stopped") ~>
           (/\ matcher_pc = "exited" /\ matcher_received = enqueued
            /\ broadcaster_pc = "exited" /\ handed = produced)

\* ---------------------------------------------------------------- C21
\* a datagram is well formed when it has the length of a frame, its first
\* byte is the XOR of the bytes after it and its second byte is SUBMIT or
\* CANCEL (the decoders of both payloads accept any payload of that length)
WellFormedDatagram(datagram) ==
    /\ Len(datagram) = MESSAGE_TOTAL_SIZE
    /\ datagram[1] = XorFold(datagram, 2, Len(datagram))
    /\ datagram[2] \in {MSG_ORDER_SUBMIT, MSG_ORDER_CANCEL}

\* C21: a datagram of the wrong length, with a failing checksum or an
\* unknown message type is dropped, nothing is enqueued for the matcher and
\* total_received_orders is unchanged; a well-formed SUBMIT or CANCEL adds
\* exactly one to total_received_orders and is enqueued exactly once.
C21_MalformedDropped ==
    net_call.kind = "datagram" =>
        IF WellFormedDatagram(net_call.datagram)
        THEN net_call.counted = 1 /\ Len(net_call.sent) = 1
        ELSE net_call.counted = 0 /\ net_call.sent = <<>>

\* ---------------------------------------------------------------- C22
\* every MatchResult the matcher sends carries one execution, and this
\* stream holds BUY and SELL orders only, so the executions emitted so far
\* are the MatchResults produced so far
\* C22: matched_orders never decreases, and once every MatchResult produced
\* has been broadcast it equals the number of non-mock executions emitted.
C22_MatchedOrdersCountsExecutions ==
    /\ [][state_matched_orders' >= state_matched_orders]_vars
    /\ []((handed = produced /\ matcher_pc # "send") =>
             state_matched_orders = produced)

\* ---------------------------------------------------------------- C23
\* C23: no sequence of well-formed SUBMIT and CANCEL messages makes the
\* matcher abort, also when the book was pre-loaded through fuel_order: no
\* subtraction on the totals or on quantities goes below zero and no access
\* to the book or to a top index is out of bounds.
C23_MatcherNeverAborts == ~panicked

\* ---------------------------------------------------------------- C24
\* the total quantity of the orders of a vector that pass a price test
RECURSIVE VolumeAtOrAbove(_, _)
VolumeAtOrAbove(orders, price) ==
    IF orders = <<>> THEN 0
    ELSE (IF orders[1].price >= price THEN orders[1].quantity ELSE 0)
         + VolumeAtOrAbove(Tail(orders), price)

RECURSIVE VolumeAtOrBelow(_, _)
VolumeAtOrBelow(orders, price) ==
    IF orders = <<>> THEN 0
    ELSE (IF orders[1].price <= price THEN orders[1].quantity ELSE 0)
         + VolumeAtOrBelow(Tail(orders), price)

ExecutableVolume(pool, price) ==
    Min(VolumeAtOrAbove(pool.bids, price), VolumeAtOrBelow(pool.asks, price))

Imbalance(pool, price) ==
    IF VolumeAtOrAbove(pool.bids, price) >= VolumeAtOrBelow(pool.asks, price)
    THEN VolumeAtOrAbove(pool.bids, price) - VolumeAtOrBelow(pool.asks, price)
    ELSE VolumeAtOrBelow(pool.asks, price) - VolumeAtOrAbove(pool.bids, price)

PoolPrices(pool) ==
    {pool.bids[i].price : i \in 1..Len(pool.bids)}
    \cup {pool.asks[i].price : i \in 1..Len(pool.asks)}

MaxCandidate(pool, tick) ==
    IF PoolPrices(pool) = {} THEN 0
    ELSE (CHOOSE p \in PoolPrices(pool) : \A q \in PoolPrices(pool) : q <= p) + tick

\* the tick at or below each order price, the tick above it and the tick
\* below it
Candidates(pool, tick) ==
    IF tick = 0 THEN {}
    ELSE {c \in 0..MaxCandidate(pool, tick) : \E p \in PoolPrices(pool) : \E k \in {-1, 0, 1} :
                          c = ((p \div tick) + k) * tick}

\* price is the candidate the rule selects: greatest executable volume,
\* then least imbalance, then lowest price
Selected(pool, candidates, price) ==
    /\ price \in candidates
    /\ \A c \in candidates :
          \/ ExecutableVolume(pool, c) < ExecutableVolume(pool, price)
          \/ /\ ExecutableVolume(pool, c) = ExecutableVolume(pool, price)
             /\ \/ Imbalance(pool, c) > Imbalance(pool, price)
                \/ Imbalance(pool, c) = Imbalance(pool, price) /\ price <= c

PriceIsEquilibrium(pool, candidates, returned) ==
    IF \A c \in candidates : ExecutableVolume(pool, c) = 0
    THEN ~returned.some
    ELSE /\ returned.some
         /\ Selected(pool, candidates, returned.price)
         /\ returned.volume = ExecutableVolume(pool, returned.price)

\* C24: the price calculation returns the candidate with the greatest
\* executable volume, among those the one with the least imbalance, among
\* those the lowest, with its executable volume; it returns None exactly
\* when no candidate has positive executable volume.
C24_EquilibriumPrice ==
    pool_call.kind = "price" =>
        PriceIsEquilibrium(AuctionPool,
                           Candidates(AuctionPool, pool_call.price_tick),
                           pool_call.returned)

\* a price was returned that a lower candidate ties on volume with a greater
\* imbalance, and that a higher candidate ties on volume and on imbalance
C24_Witness ==
    /\ pool_call.kind = "price"
    /\ pool_call.returned.some
    /\ \E c \in Candidates(AuctionPool, pool_call.price_tick) :
          /\ c < pool_call.returned.price
          /\ ExecutableVolume(AuctionPool, c) = pool_call.returned.volume
          /\ Imbalance(AuctionPool, c) > Imbalance(AuctionPool, pool_call.returned.price)
    /\ \E c \in Candidates(AuctionPool, pool_call.price_tick) :
          /\ c > pool_call.returned.price
          /\ ExecutableVolume(AuctionPool, c) = pool_call.returned.volume
          /\ Imbalance(AuctionPool, c) = Imbalance(AuctionPool, pool_call.returned.price)

\* ---------------------------------------------------------------- C25
\* bids 100@10 and 99@5, asks 98@8 and 101@4
ScenarioPool == add_order_all(CallAuctionPool_new, ScenarioOrders, Len(ScenarioOrders))

PricedScenario ==
    /\ pool_call.kind = "price"
    /\ pool_call.price_tick = 1
    /\ AuctionPool = ScenarioPool

\* C25 as stated: for the scenario's pool and tick 1 the equilibrium price
\* is 99 and the executable volume is 8.
C25_ScenarioPrice99 ==
    PricedScenario => pool_call.returned = [some |-> TRUE, price |-> 99, volume |-> 8]

\* C25 amended: for the scenario's pool and tick 1 the equilibrium price is
\* 100 and the executable volume is 8 (98, 99 and 100 tie on volume 8; the
\* imbalance is 7 at 98 and 99 and 2 at 100).
C25_ScenarioPrice100 ==
    PricedScenario => pool_call.returned = [some |-> TRUE, price |-> 100, volume |-> 8]

C25_Witness ==
    /\ PricedScenario
    /\ ExecutableVolume(ScenarioPool, 99) = 8
    /\ Imbalance(ScenarioPool, 100) < Imbalance(ScenarioPool, 99)

\* ---------------------------------------------------------------- C26
\* the orders of a vector that carry the id
WithId(orders, order_id) ==
    {orders[i] : i \in {k \in 1..Len(orders) : orders[k].order_id = order_id}}

\* the quantity the executions give the buy order, and the sell order, of
\* that id
RECURSIVE BoughtBy(_, _)
BoughtBy(executions, order_id) ==
    IF executions = <<>> THEN 0
    ELSE (IF executions[1].buy_order_id = order_id THEN executions[1].quantity ELSE 0)
         + BoughtBy(Tail(executions), order_id)

RECURSIVE SoldBy(_, _)
SoldBy(executions, order_id) ==
    IF executions = <<>> THEN 0
    ELSE (IF executions[1].sell_order_id = order_id THEN executions[1].quantity ELSE 0)
         + SoldBy(Tail(executions), order_id)

AuctionExecuted == pool_call.kind = "execute" /\ pool_call.found.some

\* C26: every execution of an auction has price P*, pairs a bid priced at
\* or above P* with an ask priced at or below P*, the quantities of the
\* executions sum to V*, and no order is filled for more than its quantity.
C26_AuctionExecutions ==
    AuctionExecuted =>
        /\ \A k \in 1..Len(pool_call.order_execution_list) :
              /\ pool_call.order_execution_list[k].price = pool_call.found.price
              /\ pool_call.order_execution_list[k].quantity > 0
              /\ \E bid \in WithId(pool_call.before.bids,
                                   pool_call.order_execution_list[k].buy_order_id) :
                    bid.price >= pool_call.found.price
              /\ \E ask \in WithId(pool_call.before.asks,
                                   pool_call.order_execution_list[k].sell_order_id) :
                    ask.price <= pool_call.found.price
        /\ SumQuantity(pool_call.order_execution_list) = pool_call.found.volume
        /\ pool_call.found.volume =
               ExecutableVolume(pool_call.before, pool_call.found.price)
        /\ \A k \in 1..Len(pool_call.before.bids) :
              BoughtBy(pool_call.order_execution_list, pool_call.before.bids[k].order_id)
                  <= pool_call.before.bids[k].quantity
        /\ \A k \in 1..Len(pool_call.before.asks) :
              SoldBy(pool_call.order_execution_list, pool_call.before.asks[k].order_id)
                  <= pool_call.before.asks[k].quantity

\* an auction of two executions that leaves one eligible order partly
\* filled, at a price that is not the price of its first bid
C26_Witness ==
    /\ AuctionExecuted
    /\ Len(pool_call.order_execution_list) = 2
    /\ \E bid \in WithId(pool_call.before.bids,
                         pool_call.order_execution_list[1].buy_order_id) :
          bid.price > pool_call.found.price
    /\ \E k \in 1..Len(pool_call.before.asks) :
          /\ SoldBy(pool_call.order_execution_list, pool_call.before.asks[k].order_id) > 0
          /\ SoldBy(pool_call.order_execution_list, pool_call.before.asks[k].order_id)
                 < pool_call.before.asks[k].quantity

\* ---------------------------------------------------------------- C27
\* the order is in the vector with the quantity the executions leave it, or
\* is not in the vector when they leave it nothing
RemainsWith(orders, order, left) ==
    IF left > 0
    THEN WithId(orders, order.order_id) = {[order EXCEPT !.quantity = left]}
    ELSE WithId(orders, order.order_id) = {}

\* C27: after an auction every order that was not eligible is still in the
\* pool with its quantity, every eligible order not completely filled is in
\* the pool with its unfilled remainder, and only completely filled orders
\* have left the pool.
C27_ResidualsRemain ==
    AuctionExecuted =>
        /\ \A k \in 1..Len(pool_call.before.bids) :
              RemainsWith(pool_bids, pool_call.before.bids[k],
                          pool_call.before.bids[k].quantity
                          - BoughtBy(pool_call.order_execution_list,
                                     pool_call.before.bids[k].order_id))
        /\ \A k \in 1..Len(pool_call.before.asks) :
              RemainsWith(pool_asks, pool_call.before.asks[k],
                          pool_call.before.asks[k].quantity
                          - SoldBy(pool_call.order_execution_list,
                                   pool_call.before.asks[k].order_id))

\* ---------------------------------------------------------------- C28
\* the ids a chunk that starts at start_index carries
ChunkIds(cancel) ==
    SubSeq(cancel.order_ids, cancel.start_index + 1,
           Min2(Len(cancel.order_ids), cancel.start_index + MAX_IDS_PER_CHUNK))

\* what the engine's decoders make of the frame: unpack_message_payload and
\* then the decoder of the message type, as process_single_message runs them
Decoded(frame) == process_single_message(frame).sent

\* C28: decoding the frame an encoder produced yields the message that was
\* encoded; a CANCEL frame is accepted and yields its product_id and the order
\* ids of its chunk.  The engine decodes SUBMIT and CANCEL frames only.
C28_RoundTrip ==
    /\ wire_frame.kind = "submit" =>
          Decoded(wire_frame.frame) = <<[kind |-> "submit", order |-> wire_frame.message]>>
    /\ wire_frame.kind = "cancel" =>
          Decoded(wire_frame.frame) =
              <<[kind |-> "cancel",
                 cancel |-> [product_id |-> wire_frame.message.product_id,
                             order_ids |-> ChunkIds(wire_frame.message)]]>>

\* ---------------------------------------------------------------- C29
MessageTypeOf(kind) ==
    CASE kind = "submit" -> MSG_ORDER_SUBMIT
      [] kind = "cancel" -> MSG_ORDER_CANCEL
      [] kind = "trade" -> MSG_TRADE_BROADCAST
      [] kind = "stats" -> MSG_STATUS_BROADCAST

\* C29: every frame an encoder produced has its message type in byte 1 and in
\* byte 0 the XOR of all the bytes after it, so that it passes the checksum
\* validation of unpack_message_payload.
C29_TypeAndChecksum ==
    wire_frame.kind # "none" =>
        /\ wire_frame.frame[2] = MessageTypeOf(wire_frame.kind)
        /\ wire_frame.frame[1] = calculate_checksum(wire_frame.frame)
        /\ unpack_message_payload(wire_frame.frame).ok

\* ---------------------------------------------------------------- C30
\* the datagram got past the length check of run_receive_loop
PassedLengthCheck ==
    /\ net_call.kind = "datagram"
    /\ net_call.log \notin {"UDP receive error", "incorrect size"}

\* C30: every frame an encoder produced is exactly 50 bytes long, and the
\* receive loop lets a datagram through only if it is exactly 50 bytes long.
C30_FiftyByteFrames ==
    /\ wire_frame.kind # "none" => Len(wire_frame.frame) = 50
    /\ PassedLengthCheck => Len(net_call.datagram) = 50

\* ---------------------------------------------------------------- C31
\* the bids of the vector with priority over the bid: a higher price, or
\* the same price and an earlier submit_time
BidsAhead(orders, bid) ==
    {orders[i] : i \in {k \in 1..Len(orders) :
                            \/ orders[k].price > bid.price
                            \/ /\ orders[k].price = bid.price
                               /\ orders[k].submit_time < bid.submit_time}}

\* the asks of the vector with priority over the ask: a lower price, or the
\* same price and an earlier submit_time
AsksAhead(orders, ask) ==
    {orders[i] : i \in {k \in 1..Len(orders) :
                            \/ orders[k].price < ask.price
                            \/ /\ orders[k].price = ask.price
                               /\ orders[k].submit_time < ask.submit_time}}

EligibleBids == SelectSeq(pool_call.before.bids, LAMBDA o : o.price >= pool_call.found.price)

EligibleAsks == SelectSeq(pool_call.before.asks, LAMBDA o : o.price <= pool_call.found.price)

\* the executions before the k-th
ExecutionsBefore(k) == SubSeq(pool_call.order_execution_list, 1, k - 1)

\* C31: in an auction an eligible bid is filled only after every eligible
\* bid of higher price, or of the same price and earlier submit_time, has
\* been completely filled; an eligible ask only after every eligible ask of
\* lower price, or of the same price and earlier submit_time.
C31_AuctionPriority ==
    AuctionExecuted =>
        \A k \in 1..Len(pool_call.order_execution_list) :
            /\ \A bid \in WithId(EligibleBids, pool_call.order_execution_list[k].buy_order_id) :
                  \A ahead \in BidsAhead(EligibleBids, bid) :
                      BoughtBy(ExecutionsBefore(k), ahead.order_id) = ahead.quantity
            /\ \A ask \in WithId(EligibleAsks, pool_call.order_execution_list[k].sell_order_id) :
                  \A ahead \in AsksAhead(EligibleAsks, ask) :
                      SoldBy(ExecutionsBefore(k), ahead.order_id) = ahead.quantity

\* an auction that fills two bids of one price, the one that arrived later
\* first because its submit_time is earlier, and leaves the other partly
\* filled
C31_Witness ==
    /\ AuctionExecuted
    /\ Len(pool_call.order_execution_list) >= 2
    /\ \E i, j \in 1..Len(pool_call.before.bids) :
          /\ i < j
          /\ pool_call.before.bids[i].price = pool_call.before.bids[j].price
          /\ pool_call.before.bids[i].submit_time > pool_call.before.bids[j].submit_time
          /\ pool_call.order_execution_list[1].buy_order_id = pool_call.before.bids[j].order_id
          /\ BoughtBy(pool_call.order_execution_list, pool_call.before.bids[i].order_id) > 0
          /\ BoughtBy(pool_call.order_execution_list, pool_call.before.bids[i].order_id)
                 < pool_call.before.bids[i].quantity

\* ---------------------------------------------------------------- C32
\* C32: the MatchResult an auction returns has end_time >= start_time, so
\* that total_time(), end_time - start_time, is not negative.
C32_EndNotBeforeStart ==
    pool_call.kind = "execute" => pool_call.end_time >= pool_call.start_time

\* ---------------------------------------------------------------- C33
\* C33: between two messages every order resting in the book has
\* quantity > 0, whatever quantities the submitted orders carried, and every
\* execution sent has quantity > 0.
C33_RestingQuantityPositive ==
    /\ \A i \in 1..Len(order_book) : order_book[i].quantity > 0
    /\ matcher_call.kind = "submit" =>
          \A k \in 1..Len(matcher_call.sent) : matcher_call.sent[k].quantity > 0

\* ---------------------------------------------------------------- C34
\* the order has an expire_time and it is not later than now
Expired(order, now) == order.expire_time # 0 /\ order.expire_time <= now

\* how many orders of the vector never expire
GoodTillCancelled(orders) ==
    Cardinality({i \in 1..Len(orders) : orders[i].expire_time = 0})

\* how many executions filled a resting order that never expires
FilledGoodTillCancelled(sent) ==
    Cardinality({k \in 1..Len(sent) : sent[k].maker_expire_time = 0})

\* C34: once a submission for the engine's product has been handled at time
\* now, no order that had expired by now rests in the book (but the
\* submitted order itself, pushed last), no execution of the submission has
\* such an order as its maker, and the orders whose expire_time is 0 are all
\* still there except those the submission filled.
C34_Expiry ==
    (matcher_call.kind = "submit" /\ matcher_call.order.product_id = state_product_id) =>
        /\ \A j \in 1..Len(order_book) :
              Expired(order_book[j], matcher_clock) =>
                  /\ j = Len(order_book)
                  /\ order_book[j] =
                         [matcher_call.order EXCEPT !.quantity = order_book[j].quantity]
        /\ \A k \in 1..Len(matcher_call.sent) :
              \/ matcher_call.sent[k].maker_expire_time = 0
              \/ matcher_call.sent[k].maker_expire_time > matcher_clock
        /\ ~matcher_aborted =>
              GoodTillCancelled(order_book)
                  >= GoodTillCancelled(matcher_call.before)
                     - FilledGoodTillCancelled(matcher_call.sent)

\* a submission that found in the book only an order of the other side at a
\* crossing price, expired by then: it was not matched and rests alone
C34_Witness ==
    /\ matcher_call.kind = "submit"
    /\ matcher_call.order.product_id = state_product_id
    /\ Len(matcher_call.before) = 1
    /\ Expired(matcher_call.before[1], matcher_clock)
    /\ matcher_call.before[1].order_type = ORDER_TYPE_SELL
    /\ matcher_call.order.order_type = ORDER_TYPE_BUY
    /\ matcher_call.order.price_type = ORDER_PRICE_TYPE_LIMIT
    /\ matcher_call.before[1].price <= matcher_call.order.price
    /\ matcher_call.sent = <<>>
    /\ order_book = <<matcher_call.order>>

\* ---------------------------------------------------------------- C35
\* the receiver waits for room in the full channel holding the lock on
\* total_received_orders, the statistics task waits for that lock holding
\* the lock on the order book, and the matcher waits for the order book
CircularWait ==
    /\ receive_task.pc = "send"
    /\ Len(main_channel) = MainChannelCapacity
    /\ main_locks.total_received_orders = "receive"
    /\ stats_task.pc = "lock_total_received_orders"
    /\ main_locks.order_book = "stats"
    /\ process_task.pc \in {"lock_order_book", "add_order_to_book"}

\* C35: the receiver, the matcher and the statistics task never wait for
\* each other in a circle, and whenever an order is queued one of the tasks
\* can take a step.
C35_NoDeadlock ==
    /\ ~CircularWait
    /\ main_channel # <<>> => ENABLED MainTaskStep

\* ---------------------------------------------------------------- C36
\* the quantity resting in the vector under the id
QuantityWithId(orders, order_id) ==
    SumQuantity(SelectSeq(orders, LAMBDA o : o.order_id = order_id))

\* C36: the executions of one call of the OrderBook never give a resting
\* order more than the quantity it had when the call started, also when the
\* top index runs empty and is rebuilt in the middle of the call.
C36_NoOverfill ==
    [][(ob_call'.kind = "submit" /\ ob_received' # ob_received) =>
          \A order_id \in OrderIds :
              IF IsBuySide(ob_call'.order.order_type)
              THEN SoldBy(ob_call'.sent, order_id) <= QuantityWithId(ob.asks, order_id)
              ELSE BoughtBy(ob_call'.sent, order_id) <= QuantityWithId(ob.bids, order_id)]_vars

\* ---------------------------------------------------------------- C37
\* C37: between two calls the continuous book is not crossed: every resting
\* bid is priced strictly below every resting ask.
C37_NotCrossed ==
    \A i \in 1..Len(bids) : \A j \in 1..Len(asks) : bids[i].price < asks[j].price

\* an order that was filled in part and rests with what is left, while
\* orders still rest on the side it was matched against
C37_Witness ==
    /\ last_call.kind = "submit"
    /\ Execs(last_call) # <<>>
    /\ last_call.residual > 0
    /\ bids # <<>>
    /\ asks # <<>>

\* ---------------------------------------------------------------- C38
\* no price can be found for the pool: a side is empty, the tick is 0, or no
\* candidate price has positive executable volume
NoEquilibrium(pool, price_tick) ==
    \/ pool.bids = <<>>
    \/ pool.asks = <<>>
    \/ price_tick = 0
    \/ \A c \in Candidates(pool, price_tick) : ExecutableVolume(pool, c) = 0

\* C38: when no equilibrium price exists, execute_auction returns a result
\* with no executions and leaves both sides of the pool as they were.
C38_NoPriceNoChange ==
    (pool_call.kind = "execute" /\ NoEquilibrium(pool_call.before, pool_call.price_tick)) =>
        /\ pool_call.order_execution_list = <<>>
        /\ pool_bids = pool_call.before.bids
        /\ pool_asks = pool_call.before.asks

\* an auction over a pool with orders on both sides, none of which cross
C38_Witness ==
    /\ pool_call.kind = "execute"
    /\ pool_call.price_tick > 0
    /\ pool_call.before.bids # <<>>
    /\ pool_call.before.asks # <<>>
    /\ NoEquilibrium(pool_call.before, pool_call.price_tick)
    /\ pool_bids # <<>>
    /\ pool_asks # <<>>

\* ---------------------------------------------------------------- C39
\* the positions at which two buffers of one length differ
DifferingPositions(a, b) == {i \in 1..Len(a) : a[i] # b[i]}

\* the datagram just received is the encoded frame with one byte changed,
\* and the encoded frame passes the checksum validation
OneByteChanged ==
    /\ net_call.kind = "datagram"
    /\ wire_frame.kind # "none"
    /\ unpack_message_payload(wire_frame.frame).ok
    /\ Len(net_call.datagram) = Len(wire_frame.frame)
    /\ Cardinality(DifferingPositions(net_call.datagram, wire_frame.frame)) = 1

ElapsedOrZero(clock, submit_time) ==
    IF submit_time > clock THEN 0 ELSE clock - submit_time

\* C40: the trade_time_network of every execution is the time elapsed from
\* the taker's submit_time to the match, 0 when submit_time lies after the
\* engine's clock; it is never a wrapped value and computing it never
\* underflows.  Stated for OrderMatcher, whose clock the model moves.
C40_TradeTimeNetwork ==
    /\ ~matcher_aborted
    /\ matcher_call.kind = "submit" =>
          \A k \in 1..Len(matcher_call.sent) :
              matcher_call.sent[k].trade_time_network
                  = ElapsedOrZero(matcher_clock, matcher_call.order.submit_time)
====
